---- MODULE Spec2Model ----
(***************************************************************************)
(* A model of the static analysis engine of reverseEngineer:               *)
(* StaticAnalyzer (static_analysis.py) with the SOLID analyzers it calls.  *)
(*                                                                         *)
(* One StaticAnalyzer instance is modelled.  `src` is what the instance    *)
(* was constructed over: the source text (its lines, the outcome of        *)
(* ast.parse on it and, when it parses, the nodes of its tree listed in    *)
(* walk order) and the results the external tools give for it (pyflakes,   *)
(* pycodestyle, flake8, pip, unittest/coverage).  analyze() is cut into    *)
(* one step per check method, in the order run_checks and the category     *)
(* methods call them, followed by the except clauses of run_checks and the *)
(* rendering of the report.                                                *)
(***************************************************************************)
EXTENDS Integers, Sequences, FiniteSets, TLC

VARIABLES
    src,       \* the inputs of the instance (never changes after __init__)
    pc,        \* where analyze() is: "idle", a check name, "guard", "render", "done"
    issues,    \* self.issues
    executed,  \* the checks entered so far, in order (history)
    raised,    \* the exception that escaped a check to run_checks, or "none"
    failedAt,  \* the check it escaped from, or "none" (history)
    result,    \* how the last analyze() call ended: "none", "returned", "raised"
    reports,   \* the report strings returned so far, one per analyze() call
    engine     \* the ReverseEngineer instance: its completion cache and call log

vars == <<src, pc, issues, executed, raised, failedAt, result, reports, engine>>

(***************************************************************************)
(* Bounds of the model.                                                    *)
(***************************************************************************)
MaxLines == 2       \* lines of source text examined by the line-based checks
MaxDefLine == 2     \* tree positions that may hold a def / async def / class
MaxConcLine == 2    \* tree positions that may hold a concurrency-relevant node
MaxToolLines == 1   \* output lines of an external tool
MaxCalls == 2       \* analyze() calls on one instance (SpecReanalyze)
MaxMethods == 11    \* methods in the body of the class
MaxBases == 2       \* base classes of the class
MaxInst == 1        \* direct instantiations in the methods of the class
MaxNormLines == 7   \* lines of source text examined by check_code_duplication
MaxHandlers == 2    \* except clauses in the tree
MaxCompletions == 2 \* calls of _get_completion on one instance
Limit == 2          \* rate_limit['limit'] of the configuration, in tokens
TimeFrame == 2      \* rate_limit['time_frame'] of the configuration, in seconds
MaxOpens == 2       \* calls in the tree examined by check_resource_management
MaxOpenLine == 2    \* line numbers of these calls
MaxInner == 2       \* class definitions of the tree besides the first
MaxDepth == 3       \* depth in the tree of a class definition
MaxImports == 2     \* import statements of the tree
MaxLogCalls == 1    \* method calls of the tree examined by check_logging
MaxDepNodes == 2    \* calls and definitions examined by check_deprecated_functions
MaxSpanLines == 3   \* lines of source text when check_line_length is called alone

(***************************************************************************)
(* Program constants.                                                      *)
(***************************************************************************)
MAX_LINE_LENGTH == 80
TOO_MANY_METHODS == 10      \* `> 10` in SRPAnalyzer, ISPAnalyzer, check_solid_principles
MAX_RESPONSIBILITIES == 2   \* `len(responsibilities) > 2` in SRPAnalyzer
BLOCK_SIZE == 3             \* block_size in check_code_duplication
MAX_RETRIES == 3            \* max_retries in _get_completion
MIN_MESSAGE_LENGTH == 10    \* `len(node.args[0].value) < 10` in check_logging

Sentinel == "No issues found. The code looks good!"
Header == "Static Analysis Report:"

(***************************************************************************)
(* The checks, in the order run_checks reaches them (the category methods  *)
(* check_code_style, check_potential_bugs, check_security,                 *)
(* check_design_principles and check_maintainability are plain sequences   *)
(* of calls with no try/except of their own).                              *)
(***************************************************************************)
CheckOrder ==
    << "check_pyflakes_issues", "check_indentation",
       "check_line_length", "check_docstrings",
       "check_conformity_to_pep8", "check_functions_length",
       "check_try_except_usage", "check_dead_code",
       "check_resource_management", "check_concurrency_issues",
       "check_secrets_in_code",
       "check_solid_principles", "check_type_annotations",
       "check_design_patterns",
       "check_code_duplication", "check_error_handling", "check_logging",
       "check_dependency_versions", "check_variable_naming_and_builtins",
       "check_modularity", "check_deprecated_functions",
       "check_complexity", "check_test_coverage" >>

Checks == {CheckOrder[i] : i \in 1..Len(CheckOrder)}

IndexOf(c) == CHOOSE i \in 1..Len(CheckOrder) : CheckOrder[i] = c

\* The category (the call made by run_checks) a check runs under.
Category(c) ==
    CASE c = "check_pyflakes_issues" -> "pyflakes"
      [] c = "check_indentation" -> "indentation"
      [] c \in {"check_line_length", "check_docstrings",
                "check_conformity_to_pep8", "check_functions_length"}
           -> "code_style"
      [] c \in {"check_try_except_usage", "check_dead_code",
                "check_resource_management", "check_concurrency_issues"}
           -> "potential_bugs"
      [] c = "check_secrets_in_code" -> "security"
      [] c \in {"check_solid_principles", "check_type_annotations",
                "check_design_patterns"}
           -> "design_principles"
      [] c \in {"check_code_duplication", "check_error_handling",
                "check_logging", "check_dependency_versions",
                "check_variable_naming_and_builtins", "check_modularity",
                "check_deprecated_functions"}
           -> "maintainability"
      [] c = "check_complexity" -> "complexity"
      [] c = "check_test_coverage" -> "test_coverage"

CategoryOrder ==
    << "pyflakes", "indentation", "code_style", "potential_bugs", "security",
       "design_principles", "maintainability", "complexity", "test_coverage" >>

CategoryIndex(k) == CHOOSE i \in 1..Len(CategoryOrder) : CategoryOrder[i] = k

\* What follows a check that returned normally.
NextCheck(c) ==
    IF IndexOf(c) = Len(CheckOrder) THEN "render" ELSE CheckOrder[IndexOf(c) + 1]

(***************************************************************************)
(* Exceptions: the classes the model raises and their base classes.        *)
(***************************************************************************)
ExcKinds ==
    { "IndentationError", "SyntaxError", "AttributeError", "ValueError",
      "TypeError", "ImportError", "ModuleNotFoundError", "FileNotFoundError",
      "KeyError", "IndexError", "ZeroDivisionError", "MemoryError",
      "RecursionError" }

ExcParent(k) ==
    CASE k = "IndentationError" -> "SyntaxError"
      [] k = "ModuleNotFoundError" -> "ImportError"
      [] k = "FileNotFoundError" -> "OSError"
      [] k = "RecursionError" -> "RuntimeError"
      [] k = "Exception" -> "BaseException"
      [] OTHER -> "Exception"

RECURSIVE IsInstance(_, _)
IsInstance(k, cls) ==
    IF k = cls THEN TRUE
    ELSE IF k \in {"BaseException", "none"} THEN FALSE
    ELSE IsInstance(ExcParent(k), cls)

(***************************************************************************)
(* The inputs of an instance.                                              *)
(*   lines   the source text, one record per line of content.splitlines(): *)
(*           head: how the stripped line starts ("triple": a triple-quote  *)
(*           delimiter, "hash": '#', "text": anything else), len: len(line)*)
(*           and pats: the SECRET_PATTERNS that re.search finds in it;     *)
(*           span: what the line is in the Python text, "code" outside any *)
(*           docstring, or the part of a docstring it holds ("single": a   *)
(*           docstring opened and closed on this line, "open", "inside",   *)
(*           "close").                                                     *)
(*   norm    the same lines as check_code_duplication reads them: what    *)
(*           normalize_line gives for each, "" for a blank or comment-only *)
(*           line.                                                         *)
(*   parse   what ast.parse(content) does: "ok" or the exception it raises *)
(*           (the same at every call: the text does not change).           *)
(*   defs, conc   the nodes ast.walk yields, position by position; a       *)
(*           position of kind "none" holds no node of interest.  The line  *)
(*           number of the node at position i is i.                        *)
(*   cls     the class of the tree, handlers its except clauses in walk    *)
(*           order.                                                        *)
(*   found   the checks, among those modelled only by whether they find    *)
(*           something, that have one finding in this source.              *)
(*   file_path, test_module   the other two arguments of __init__: given   *)
(*           or None.                                                      *)
(*   pyflakes ... tests   what the external tools do for this file.        *)
(*   fault   an exception raised inside the body of one check for a reason *)
(*           other than the above (MemoryError, a defect of the check ...).*)
(***************************************************************************)
Heads == {"text", "triple", "hash"}
Lens == {MAX_LINE_LENGTH, MAX_LINE_LENGTH + 1}

\* The patterns of SECRET_PATTERNS, in list order.
SECRET_PATTERNS == << "aws", "google", "generic" >>

\* An AWS-style key is 20 characters of [0-9A-Z], so the generic pattern
\* of 20 or more [A-Za-z0-9_] finds it too.
PatSets ==
    { {}, {"generic"}, {"aws", "generic"}, {"google"}, {"google", "generic"},
      {"aws", "google", "generic"} }

Spans == {"code", "single", "open", "inside", "close"}

\* A docstring starts with its quotes; it may end with quotes that stand
\* alone on the last line or that follow the last words.
HeadsOf(span) ==
    CASE span \in {"single", "open"} -> {"triple"}
      [] span = "close" -> {"triple", "text"}
      [] OTHER -> {"text", "hash"}

LineRecs ==
    {l \in [head : Heads, len : Lens, pats : PatSets, span : Spans] :
       l.head \in HeadsOf(l.span)}
PlainLine ==
    [head |-> "text", len |-> MAX_LINE_LENGTH, pats |-> {}, span |-> "code"]

\* The spans of the lines of a text: a docstring that is opened is closed
\* before code goes on.
WellFormed(ls) ==
    /\ \A i \in 1..Len(ls) :
         LET before == IF i = 1 THEN "code" ELSE ls[i - 1].span
         IN  IF before \in {"open", "inside"}
             THEN ls[i].span \in {"inside", "close"}
             ELSE ls[i].span \in {"code", "single", "open"}
    /\ ls # << >> => ls[Len(ls)].span \notin {"open", "inside"}

SeqsUpTo(S, n) == UNION {[1..m -> S] : m \in 0..n}

\* Normalized lines: blank, or one of three different texts.
NormLines == {"", "a", "b", "c"}

ParseOutcomes == {"ok", "IndentationError", "SyntaxError", "ValueError"}

DefKinds == {"FunctionDef", "AsyncFunctionDef", "ClassDef"}
Names == {"f", "g"}
NoDef == [kind |-> "none", doc |-> FALSE, name |-> ""]
DefRecs == [kind : DefKinds, doc : BOOLEAN, name : Names] \cup {NoDef}

ConcKinds == {"none", "submit", "lock", "assign"}

\* The forms of a base class: `Base` is an ast.Name, `pkg.Base` an
\* ast.Attribute.
BaseForms == {"Name", "Attribute"}
Responsibilities ==
    {"data_handling", "email_handling", "report_generation", "other"}
\* The func of an ast.Call: a Name, an Attribute (of a Name, of an
\* Attribute, or of another expression) or another expression.
Node(node, id) == [node |-> node, id |-> id]
FuncNode(node, id, value) == [node |-> node, id |-> id, value |-> value]
FuncNodes ==
    { FuncNode("Name", n, Node("", "")) :
        n \in {"open", "socket", "connect", "NamedTemporaryFile", "Thread",
               "print"} }
    \cup { FuncNode("Attribute", "get", Node("Name", "requests")),
           FuncNode("Attribute", "socket", Node("Name", "socket")),
           FuncNode("Attribute", "read", Node("Name", "f")),
           FuncNode("Attribute", "get", Node("Attribute", "requests")),
           FuncNode("Attribute", "get", Node("Call", "")),
           FuncNode("Subscript", "", Node("", "")) }

\* A call of the tree: its func, whether it is the context expression of the
\* first item of a `with`, its line, the kind of the outermost definition
\* that encloses it ("Module" when there is none) and the attributes called
\* as methods anywhere in that definition.
CallRecs ==
    { c \in [func : FuncNodes, ctx : BOOLEAN, line : 1..MaxOpenLine,
             parent : {"Module", "FunctionDef", "AsyncFunctionDef"},
             attrs : SUBSET {"close", "join"}] :
        c.parent = "Module" => c.attrs = {} }

\* An except clause: a statement that calls a logging level method is an
\* ast.Expr, so log = "level" comes with expr; does tells what the
\* statements of the body that are no expression statements do ("nothing":
\* there is none but `pass`).
HandlerRecs ==
    {h \in [type : {"bare", "Exception", "specific"}, expr : BOOLEAN,
            log : {"none", "level", "other"},
            does : {"nothing", "raise", "assign"}] :
       h.log = "level" => h.expr}

NoClass ==
    [kind |-> "none", name |-> "", line |-> 0, methods |-> 0, under |-> 0,
     bases |-> << >>, resp |-> {}, inst |-> 0]
\* A class with m methods, u of them with a leading underscore.
Class(m, u, b, r, n) ==
    [kind |-> "ClassDef", name |-> "C", line |-> 1, methods |-> m,
     under |-> u, bases |-> b, resp |-> r, inst |-> n]

\* Checks modelled by whether they find something in the tree or the text.
FindingChecks ==
    { "check_functions_length", "check_try_except_usage", "check_dead_code",
      "check_type_annotations", "check_design_patterns",
      "check_variable_naming_and_builtins", "check_modularity" }

NoFault == [at |-> "none", kind |-> "none"]

ToolOk(n) == [status |-> "ok", n |-> n]
ToolErr == [status |-> "error", n |-> 0]
ToolMissing == [status |-> "missing", n |-> 0]

PyflakesResults == {ToolErr} \cup {ToolOk(n) : n \in 0..MaxToolLines}
PycodestyleResults ==
    {ToolMissing, ToolErr} \cup {ToolOk(n) : n \in 0..MaxToolLines}
Flake8Results == {"error", "empty", "other_only", "c901"}
PipResults == {ToolMissing, ToolErr} \cup {ToolOk(n) : n \in 0..MaxToolLines}
TestResults == {"raise", "fail", "pass"}
CovResults == {"raise", "below", "above"}

\* A source that parses, has nothing to report and whose tools are silent.
CleanSrc ==
    [ file_path |-> "path",
      test_module |-> "module",
      lines |-> << PlainLine >>,
      norm |-> << "a" >>,
      parse |-> "ok",
      defs |-> [i \in 1..MaxDefLine |-> NoDef],
      conc |-> [i \in 1..MaxConcLine |-> "none"],
      cls |-> NoClass,
      handlers |-> << >>,
      opens |-> << >>,
      inner |-> << >>,
      imports |-> << [node |-> "ImportFrom", module |-> "logging"] >>,
      logcalls |-> << >>,
      depnodes |-> << >>,
      found |-> {},
      pyflakes |-> ToolOk(0),
      pycodestyle |-> ToolOk(0),
      flake8 |-> "empty",
      pip |-> ToolOk(0),
      tests |-> "pass",
      cov |-> "above",
      fault |-> NoFault ]

\* A source with findings in several categories.
RichSrc ==
    [ CleanSrc EXCEPT
        !.lines = << [head |-> "text", len |-> MAX_LINE_LENGTH + 1,
                      pats |-> {"generic"}, span |-> "code"] >>,
        !.norm = << "a", "b", "c", "a", "b", "c" >>,
        !.handlers = << [type |-> "bare", expr |-> FALSE, log |-> "none",
                           does |-> "nothing"] >>,
        !.opens = << [func |-> FuncNode("Name", "open", Node("", "")),
                      ctx |-> TRUE, line |-> 1, parent |-> "FunctionDef",
                      attrs |-> {}] >>,
        !.defs = [i \in 1..MaxDefLine |->
                    IF i = 1 THEN [kind |-> "FunctionDef", doc |-> FALSE,
                                   name |-> "f"]
                    ELSE NoDef],
        !.conc = [i \in 1..MaxConcLine |->
                    IF i = 1 THEN "assign" ELSE "submit"],
        !.imports = << [node |-> "Import", module |-> "logging"] >>,
        !.logcalls = << [attr |-> "error", arg |-> "name", len |-> 0] >>,
        !.depnodes = << [item |-> "Call", doc |-> "none",
                         func |-> FuncNode("Name", "eval", Node("", ""))] >>,
        !.found = {"check_dead_code"} ]

\* Unparseable text has no tree: only its lines and the tools remain.
Unparsed(s, p) ==
    [ s EXCEPT !.parse = p,
               !.defs = [i \in 1..MaxDefLine |-> NoDef],
               !.conc = [i \in 1..MaxConcLine |-> "none"],
               !.cls = NoClass,
               !.handlers = << >>,
               !.opens = << >>,
               !.inner = << >>,
               !.imports = << >>,
               !.logcalls = << >>,
               !.depnodes = << >>,
               !.found = {} ]

\* The families of inputs explored: each varies some inputs over all their
\* values and keeps the others as in CleanSrc or RichSrc.
ToolInputs ==
    { [ b EXCEPT !.pyflakes = pf, !.pycodestyle = pcs, !.flake8 = f8,
                 !.pip = pp, !.tests = ts, !.cov = cv ] :
        b \in {CleanSrc, RichSrc},
        pf \in PyflakesResults, pcs \in PycodestyleResults,
        f8 \in Flake8Results, pp \in PipResults,
        ts \in TestResults, cv \in CovResults }

ParseInputs ==
    { Unparsed([ RichSrc EXCEPT !.pyflakes = pf, !.pycodestyle = pcs,
                                !.lines = ls ], p) :
        p \in ParseOutcomes \ {"ok"},
        pf \in PyflakesResults, pcs \in PycodestyleResults,
        ls \in SeqsUpTo({PlainLine, RichSrc.lines[1]}, MaxLines) }

\* Lines that differ in what check_line_length reads, and lines that differ
\* in what check_secrets_in_code reads.
LengthLines == {l \in LineRecs : l.pats = {}}
SecretLines ==
    {l \in LineRecs :
       l.head = "text" /\ l.len = MAX_LINE_LENGTH /\ l.span = "code"}

LineInputs ==
    { [ CleanSrc EXCEPT !.lines = ls ] :
        ls \in {q \in SeqsUpTo(LengthLines \cup SecretLines, MaxLines) :
                  WellFormed(q)} }

DefInputs ==
    { [ CleanSrc EXCEPT !.defs = d ] : d \in [1..MaxDefLine -> DefRecs] }

ConcInputs ==
    { [ CleanSrc EXCEPT !.conc = c ] : c \in [1..MaxConcLine -> ConcKinds] }

\* Classes by their method counts, by their bases, and by what the
\* method names and bodies hold.
ClassInputs ==
    { [ CleanSrc EXCEPT !.cls = Class(p[1], p[2], << >>, {"other"}, 0) ] :
        p \in {q \in (1..MaxMethods) \X (0..MaxMethods) : q[2] <= q[1]} }
    \cup { [ CleanSrc EXCEPT !.cls = Class(0, 0, b, {}, 0) ] :
             b \in SeqsUpTo(BaseForms, MaxBases) }
    \cup { [ CleanSrc EXCEPT !.cls = Class(MaxMethods, 0, << >>, r, n) ] :
             r \in (SUBSET Responsibilities) \ {{}}, n \in 0..MaxInst }

\* An import statement: `import m` is an ast.Import, `from m import x` an
\* ast.ImportFrom whose module is m.
ImportRecs ==
    [node : {"Import", "ImportFrom"}, module : {"logging", "logging.handlers", "os"}]

\* A call of a method: the attribute called and its first argument, which
\* is absent ("none"), not a string constant ("name") or a string constant
\* ("str") of length len.
LogCallRecs ==
    { c \in [attr : {"info", "error", "get"}, arg : {"none", "name", "str"},
             len : {0, MIN_MESSAGE_LENGTH - 1, MIN_MESSAGE_LENGTH}] :
        c.arg # "str" => c.len = 0 }

\* A node of the walk of check_deprecated_functions: a call with its func,
\* or a definition whose docstring is absent ("none"), plain, or holds one
\* of the deprecation keywords ("deprecated").
DepNodes ==
    { [item |-> "Call", func |-> f, doc |-> "none"] :
        f \in { FuncNode("Name", "eval", Node("", "")),
                FuncNode("Name", "open", Node("", "")),
                FuncNode("Name", "print", Node("", "")),
                FuncNode("Attribute", "system", Node("Name", "os")),
                FuncNode("Attribute", "md5", Node("Name", "hashlib")),
                FuncNode("Attribute", "get", Node("Name", "requests")) } }
    \cup { [item |-> k, func |-> FuncNode("", "", Node("", "")), doc |-> d] :
             k \in DefKinds, d \in {"none", "plain", "deprecated"} }

\* Where a further class definition stands: at the top of the module
\* (depth 1) or, deeper, in the body of a function or of a class.
Positions ==
    {[depth |-> 1, within |-> "Module"]}
    \cup [depth : 2..MaxDepth, within : {"FunctionDef", "ClassDef"}]

InnerShapes ==
    { Class(0, 0, << >>, {}, 0),
      Class(MaxMethods, 0, << >>,
            {"data_handling", "email_handling", "report_generation"}, 0),
      Class(1, 1, << "Name" >>, {"other"}, 0),
      Class(1, 0, << >>, {"other"}, MaxInst) }

\* The class definitions of the tree after the first, in the order of the
\* text, each at line i + 1.
InnerSeqs ==
    { [i \in 1..Len(q) |->
         [node |-> [q[i].node EXCEPT !.name = "D", !.line = i + 1],
          depth |-> q[i].at.depth, within |-> q[i].at.within]] :
        q \in SeqsUpTo([node : InnerShapes, at : Positions], MaxInner) }

\* Instances constructed without a file path or without a test module.
AbsentInputs ==
    { [ b EXCEPT !.file_path = fp, !.test_module = tm, !.pycodestyle = pcs,
                 !.pip = pp, !.cov = cv ] :
        b \in {CleanSrc, RichSrc}, fp \in {"path", "None"},
        tm \in {"module", "None"}, pcs \in {ToolErr, ToolOk(0)},
        pp \in PipResults, cv \in CovResults }

FoundInputs ==
    { [ CleanSrc EXCEPT !.found = fs ] :
        fs \in {FindingChecks} \cup {{c} : c \in FindingChecks} }

FaultInputs ==
    { [ RichSrc EXCEPT !.fault = [at |-> c, kind |-> k] ] :
        c \in Checks, k \in ExcKinds }

Inputs ==
    ToolInputs \cup ParseInputs \cup LineInputs \cup DefInputs
      \cup ConcInputs \cup ClassInputs \cup AbsentInputs \cup FoundInputs
      \cup FaultInputs

(***************************************************************************)
(* Issues.  An issue is a string; the model keeps of it what the claims    *)
(* read: the check that appended it, the kind of message, the name and the *)
(* line number the message cites (""/0 when it cites none), the ordinal of *)
(* its detection inside its check (the walk position, the line or the     *)
(* output line at which the check found it) and the number of text lines   *)
(* it holds (1 + the number of "\n" in it).                                *)
(***************************************************************************)
Issue(chk, kind, name, line, det, nl) ==
    [chk |-> chk, kind |-> kind, name |-> name, line |-> line, det |-> det,
     nl |-> nl]

Msg(chk, kind) == Issue(chk, kind, "", 0, 0, 1)

\* What a check does: the issues it appends and the exception it lets escape.
Returns(out) == [out |-> out, exc |-> "none"]
Raises(k) == [out |-> << >>, exc |-> k]

\* << F(i) : i \in 1..n with P(i) >>, in increasing order of i.
SelectMap(n, P(_), F(_)) ==
    LET idx == SelectSeq([i \in 1..n |-> i], P)
    IN  [j \in 1..Len(idx) |-> F(idx[j])]

\* The checks that call ast.parse(content) (check_solid_principles through
\* SOLIDAnalyzerEngine.analyze_code), each as the first thing it does.
ParsingChecks ==
    Checks \ { "check_pyflakes_issues", "check_line_length",
               "check_conformity_to_pep8", "check_secrets_in_code",
               "check_code_duplication", "check_complexity",
               "check_test_coverage" }

\* The exception raised in the body of check c by ast.parse(content) or by
\* anything else but an external tool: the fault, else the parse failure.
BodyExc(s, c) ==
    IF s.fault.at = c THEN s.fault.kind
    ELSE IF c \in ParsingChecks /\ s.parse # "ok" THEN s.parse
    ELSE "none"

\* A check with `except Exception` around its whole body.
Guarded(s, c, out) ==
    IF BodyExc(s, c) # "none" THEN Returns(<< Msg(c, "check_error") >>)
    ELSE Returns(out)

\* A check with no try/except.
Unguarded(s, c, out) ==
    IF BodyExc(s, c) # "none" THEN Raises(BodyExc(s, c))
    ELSE Returns(out)

Finding(s, c) ==
    IF c \in s.found THEN << Issue(c, "finding", "", 0, 1, 1) >> ELSE << >>

(***************************************************************************)
(* The checks.  Each operator gives, for the inputs s, what one call of    *)
(* the method does: the issues it appends to self.issues, in order, and    *)
(* the exception that leaves it.                                           *)
(***************************************************************************)

\* subprocess.run raises TypeError for a command that holds None.
\* subprocess.run(['pyflakes', path]); any exception is turned into a list
\* that is returned to run_checks, which drops it: nothing is appended.
PyflakesOutput(s) ==
    LET c == "check_pyflakes_issues" IN
    IF BodyExc(s, c) # "none" \/ s.pyflakes.status = "error"
       \/ s.file_path = "None"
    THEN Returns(<< >>)
    ELSE Returns([i \in 1..s.pyflakes.n |->
                    Issue(c, "pyflakes_line", "", 0, i, 1)])

IndentationOutput(s) ==
    LET c == "check_indentation"
        k == BodyExc(s, c) IN
    IF IsInstance(k, "IndentationError")
    THEN Returns(<< Msg(c, "IndentationError") >>)
    ELSE IF IsInstance(k, "SyntaxError")
    THEN Returns(<< Msg(c, "SyntaxError") >>)
    ELSE IF k # "none" THEN Raises(k)
    ELSE Returns(<< >>)

RECURSIVE LineLengthSkipFirst(_, _, _)
\* The skip test is made with the flag as it was before the line.
LineLengthSkipFirst(lines, i, inDoc) ==
    IF i > Len(lines) THEN << >>
    ELSE LET flipped == IF lines[i].head = "triple" THEN ~inDoc ELSE inDoc
             skip == inDoc \/ lines[i].head = "hash"
         IN  (IF ~skip /\ lines[i].len > MAX_LINE_LENGTH
              THEN << Issue("check_line_length", "line_too_long", "", i, i, 1) >>
              ELSE << >>)
             \o LineLengthSkipFirst(lines, i + 1, flipped)

RECURSIVE LineLengthFrom(_, _, _)
\* The loop of check_line_length from line i on, in_docstring being inDoc.
LineLengthFrom(lines, i, inDoc) ==
    IF i > Len(lines) THEN << >>
    ELSE LET flipped == IF lines[i].head = "triple" THEN ~inDoc ELSE inDoc
             skip == flipped \/ lines[i].head = "hash"
         IN  (IF ~skip /\ lines[i].len > MAX_LINE_LENGTH
              THEN << Issue("check_line_length", "line_too_long", "", i, i, 1) >>
              ELSE << >>)
             \o LineLengthFrom(lines, i + 1, flipped)

LineLengthOutput(s) ==
    Unguarded(s, "check_line_length", LineLengthFrom(s.lines, 1, FALSE))

\* The issues of check_docstrings for a tree: one for each FunctionDef or
\* ClassDef node for which ast.get_docstring gives None.
DocstringIssues(defs) ==
    SelectMap(MaxDefLine,
              LAMBDA i : defs[i].kind \in {"FunctionDef", "ClassDef"}
                         /\ ~defs[i].doc,
              LAMBDA i : Issue("check_docstrings",
                               IF defs[i].kind = "FunctionDef"
                               THEN "function_missing_docstring"
                               ELSE "class_missing_docstring",
                               defs[i].name, i, i, 1))

DocstringsOutput(s) ==
    LET c == "check_docstrings"
        k == BodyExc(s, c) IN
    IF IsInstance(k, "IndentationError")
    THEN Returns(<< Msg(c, "IndentationError") >>)
    ELSE IF k # "none" THEN Raises(k)
    ELSE Returns(DocstringIssues(s.defs))

\* `import pycodestyle` stands before the try; the rest is inside it.
Pep8Output(s) ==
    LET c == "check_conformity_to_pep8"
        k == BodyExc(s, c) IN
    IF s.pycodestyle.status = "missing" THEN Raises("ModuleNotFoundError")
    ELSE IF IsInstance(k, "ImportError")
    THEN Returns(<< Msg(c, "pycodestyle_required") >>)
    ELSE IF k # "none" \/ s.pycodestyle.status = "error"
    THEN Returns(<< Msg(c, "check_error") >>)
    ELSE IF s.pycodestyle.n > 0
    THEN Returns(<< Msg(c, "pep8_total") >>
                 \o [i \in 1..s.pycodestyle.n |->
                       Issue(c, "pep8_error", "", 0, i, 1)])
    ELSE Returns(<< Msg(c, "no_pep8_violations") >>)

FunctionsLengthOutput(s) ==
    LET c == "check_functions_length" IN Unguarded(s, c, Finding(s, c))

TryExceptUsageOutput(s) ==
    LET c == "check_try_except_usage" IN Guarded(s, c, Finding(s, c))

DeadCodeOutput(s) ==
    LET c == "check_dead_code" IN Guarded(s, c, Finding(s, c))

\* `except SyntaxError` before `except Exception`: two different messages.
SyntaxGuarded(s, c, out) ==
    LET k == BodyExc(s, c) IN
    IF IsInstance(k, "SyntaxError") THEN Returns(<< Msg(c, "syntax_error") >>)
    ELSE IF k # "none" THEN Returns(<< Msg(c, "check_error") >>)
    ELSE Returns(out)

\* resource_types: the tracked resources and the method that closes each.
ResourceTypes ==
    [ r \in {"open", "socket", "connect", "requests.get",
             "NamedTemporaryFile", "Thread"} |->
        IF r = "Thread" THEN "join" ELSE "close" ]

\* get_resource_name(func_node)
GetResourceName(f) ==
    IF f.node = "Name" THEN f.id
    ELSE IF f.node = "Attribute" /\ f.value.node \in {"Name", "Attribute"}
         THEN f.value.id \o "." \o f.id
    ELSE "None"

\* get_parent_function(node, tree): the first FunctionDef of the walk that
\* holds the node; an async def is not a FunctionDef.
GetParentFunction(c) == IF c.parent = "FunctionDef" THEN "FunctionDef" ELSE "None"

RECURSIVE ResourceIssuesFrom(_, _)
\* The walk of check_resource_management from the i-th call on.  The branch
\* for ast.With appends nothing and does not stop the walk from reaching
\* the context expression, which is then examined as any other ast.Call.
ResourceIssuesFrom(opens, i) ==
    IF i > Len(opens) THEN << >>
    ELSE LET c == opens[i]
             resource == GetResourceName(c.func)
             closed == /\ GetParentFunction(c) # "None"
                       /\ ResourceTypes[resource] \in c.attrs
         IN  (IF resource \in DOMAIN ResourceTypes /\ ~closed
              THEN << Issue("check_resource_management", "not_closed",
                            resource, c.line, i, 1) >>
              ELSE << >>)
             \o ResourceIssuesFrom(opens, i + 1)

ResourceManagementOutput(s) ==
    SyntaxGuarded(s, "check_resource_management", ResourceIssuesFrom(s.opens, 1))

\* The shared-resource findings are reported whether or not a thread pool
\* is used.
ConcurrencyIssuesUncorrelated(conc) ==
    SelectMap(MaxConcLine,
              LAMBDA i : conc[i] \in {"submit", "lock"},
              LAMBDA i : Issue("check_concurrency_issues",
                               IF conc[i] = "submit" THEN "threadpool" ELSE "lock",
                               "", i, i, 1))
    \o SelectMap(MaxConcLine,
                 LAMBDA i : conc[i] = "assign",
                 LAMBDA i : Issue("check_concurrency_issues", "shared_resource",
                                  "", i, i, 1))

\* The issues of check_concurrency_issues for a tree: thread-pool and lock
\* issues are appended during the walk; the shared-resource findings are
\* collected and appended after it, if the tree has a thread-pool call.
ConcurrencyIssues(conc) ==
    LET c == "check_concurrency_issues"
        during == SelectMap(MaxConcLine,
                            LAMBDA i : conc[i] \in {"submit", "lock"},
                            LAMBDA i : Issue(c, IF conc[i] = "submit"
                                                THEN "threadpool" ELSE "lock",
                                             "", i, i, 1))
        shared_resource_access ==
            SelectMap(MaxConcLine,
                      LAMBDA i : conc[i] = "assign",
                      LAMBDA i : Issue(c, "shared_resource", "", i, i, 1))
    IN  IF \E i \in 1..MaxConcLine : conc[i] = "submit"
        THEN during \o shared_resource_access
        ELSE during

ConcurrencyOutput(s) ==
    Guarded(s, "check_concurrency_issues", ConcurrencyIssues(s.conc))

\* One issue for a line that some pattern matches, however many do.
SecretIssuesOncePerLine(lines) ==
    SelectMap(Len(lines),
              LAMBDA i : lines[i].pats # {},
              LAMBDA i : Issue("check_secrets_in_code", "secret", "", i, i, 1))

\* for each line, for each pattern: one issue if re.search finds the pattern.
SecretIssues(lines) ==
    LET np == Len(SECRET_PATTERNS)
        lineOf(k) == ((k - 1) \div np) + 1
        patOf(k) == SECRET_PATTERNS[((k - 1) % np) + 1]
    IN  SelectMap(Len(lines) * np,
                  LAMBDA k : patOf(k) \in lines[lineOf(k)].pats,
                  LAMBDA k : Issue("check_secrets_in_code", "secret", "",
                                   lineOf(k), k, 1))

SecretsOutput(s) ==
    Unguarded(s, "check_secrets_in_code", SecretIssues(s.lines))

(***************************************************************************)
(* check_solid_principles.  The class of the source, as the analyzers read *)
(* it: methods is the number of FunctionDef nodes of its body, under the   *)
(* number of those whose name starts with '_', bases the syntactic forms   *)
(* of its base classes, resp the responsibilities SRPAnalyzer derives from *)
(* the method names and inst the number of `x = Name(...)` statements      *)
(* directly in a method body.                                              *)
(***************************************************************************)
\* SRPAnalyzer.analyze
SrpAnalyze(cls) ==
    (IF Cardinality(cls.resp) > MAX_RESPONSIBILITIES
     THEN << "srp_responsibilities" >> ELSE << >>)
    \o (IF cls.methods > TOO_MANY_METHODS
        THEN << "srp_too_many_methods" >> ELSE << >>)

HasNameBase(cls) == \E i \in 1..Len(cls.bases) : cls.bases[i] = "Name"

\* OCPAnalyzer.analyze: base_classes keeps the bases that are ast.Name;
\* the second test is any(...) over the methods.
OcpAnalyze(cls) ==
    (IF HasNameBase(cls) THEN << "ocp_inherits" >> ELSE << >>)
    \o (IF cls.under > 0 THEN << "protected_methods" >> ELSE << >>)

\* LSPAnalyzer.analyze
LspAnalyze(cls) ==
    IF HasNameBase(cls) THEN << "lsp_inherits" >> ELSE << >>

\* ISPAnalyzer.analyze
IspAnalyze(cls) ==
    IF cls.methods > TOO_MANY_METHODS
    THEN << "isp_too_many_methods" >> ELSE << >>

\* DIPAnalyzer.analyze
DipAnalyze(cls) == [i \in 1..cls.inst |-> "dip_instantiation"]

\* SOLIDAnalyzerEngine.analyze_code for the class of the tree, with the
\* analyzers in the order check_solid_principles lists them.
AnalyzeCode(cls) ==
    IF cls.kind # "ClassDef" THEN << >>
    ELSE SrpAnalyze(cls) \o OcpAnalyze(cls) \o LspAnalyze(cls)
         \o IspAnalyze(cls) \o DipAnalyze(cls)

\* The second walk of check_solid_principles, over the same class.
SolidManual(cls) ==
    IF cls.kind # "ClassDef" THEN << >>
    ELSE (IF cls.methods > TOO_MANY_METHODS
          THEN << "single_responsibility_too_many_methods" >> ELSE << >>)
         \o (IF cls.under > 0 THEN << "protected_methods" >> ELSE << >>)

\* The class definitions of the tree in the order of the text.
TreeClasses(s) ==
    (IF s.cls.kind = "ClassDef"
     THEN << [node |-> s.cls, depth |-> 1, within |-> "Module"] >>
     ELSE << >>) \o s.inner

\* A class that stands in a class body comes after a class of the depth
\* above it.
WellNested(s) ==
    LET cs == TreeClasses(s) IN
    \A i \in 1..Len(cs) :
        cs[i].within = "ClassDef" =>
            \E j \in 1..(i - 1) : cs[j].depth = cs[i].depth - 1

\* Only the class definitions at the top of the module.
WalkTopLevel(nodes) == SelectSeq(nodes, LAMBDA x : x.depth = 1)

RECURSIVE WalkFrom(_, _)
\* ast.walk is breadth first: the nodes of one depth come out in the
\* order of the text, before every node of the next depth.
WalkFrom(nodes, d) ==
    IF d > MaxDepth THEN << >>
    ELSE SelectSeq(nodes, LAMBDA x : x.depth = d) \o WalkFrom(nodes, d + 1)

Walk(nodes) == WalkFrom(nodes, 1)

\* The issues one pass over a class gives, with the class they are about.
About(kinds, cls) ==
    [i \in 1..Len(kinds) |-> [kind |-> kinds[i], name |-> cls.name,
                              line |-> cls.line]]

RECURSIVE AnalyzeCodeFrom(_, _)
\* SOLIDAnalyzerEngine.analyze_code: for node in ast.walk(tree), for
\* analyzer in self.analyzers, issues.extend(analyzer.analyze(node)).
AnalyzeCodeFrom(walk, i) ==
    IF i > Len(walk) THEN << >>
    ELSE About(AnalyzeCode(walk[i].node), walk[i].node)
         \o AnalyzeCodeFrom(walk, i + 1)

RECURSIVE SolidManualFrom(_, _)
\* The second walk of check_solid_principles over every class.
SolidManualFrom(walk, i) ==
    IF i > Len(walk) THEN << >>
    ELSE About(SolidManual(walk[i].node), walk[i].node)
         \o SolidManualFrom(walk, i + 1)

\* The issues check_solid_principles appends: the engine's, then its own.
SolidIssues(s) ==
    LET walk == Walk(TreeClasses(s))
        found == AnalyzeCodeFrom(walk, 1) \o SolidManualFrom(walk, 1)
    IN  [i \in 1..Len(found) |->
           Issue("check_solid_principles", found[i].kind, found[i].name,
                 found[i].line, i, 1)]

SolidOutput(s) ==
    Unguarded(s, "check_solid_principles", SolidIssues(s))

TypeAnnotationsOutput(s) ==
    LET c == "check_type_annotations" IN Unguarded(s, c, Finding(s, c))

DesignPatternsOutput(s) ==
    LET c == "check_design_patterns" IN Unguarded(s, c, Finding(s, c))

RECURSIVE DuplicationNoSlide(_, _, _, _)
\* A variant of the loop that empties the window once it is full instead
\* of sliding it by one line.
DuplicationNoSlide(norm, i, block, seen) ==
    IF i > Len(norm) THEN << >>
    ELSE IF norm[i] = "" THEN DuplicationNoSlide(norm, i + 1, block, seen)
    ELSE LET b == Append(block, norm[i]) IN
         IF Len(b) = BLOCK_SIZE
         THEN (IF b \in seen
               THEN << Issue("check_code_duplication", "duplication", "",
                             i - BLOCK_SIZE + 1, i, 1) >>
               ELSE << >>)
              \o DuplicationNoSlide(norm, i + 1, << >>, seen \cup {b})
         ELSE DuplicationNoSlide(norm, i + 1, b, seen)

RECURSIVE DuplicationFrom(_, _, _, _)
\* The loop of check_code_duplication from line i on (i counts from 1,
\* the code's index from 0): norm[i] is normalize_line of line i, "" for a
\* blank or comment-only line; block is the window, seen the set of the
\* windows met.  The issue cites the lines i - block_size + 1 to i, kept
\* as its line and its det.
DuplicationFrom(norm, i, block, seen) ==
    IF i > Len(norm) THEN << >>
    ELSE IF norm[i] = "" THEN DuplicationFrom(norm, i + 1, block, seen)
    ELSE LET b == Append(block, norm[i]) IN
         IF Len(b) = BLOCK_SIZE
         THEN (IF b \in seen
               THEN << Issue("check_code_duplication", "duplication", "",
                             i - BLOCK_SIZE + 1, i, 1) >>
               ELSE << >>)
              \o DuplicationFrom(norm, i + 1, Tail(b), seen \cup {b})
         ELSE DuplicationFrom(norm, i + 1, b, seen)

\* check_code_duplication has no try/except and does not parse.

RECURSIVE BlockAfter(_, _)
\* The window buffer `block` of check_code_duplication at the end of the
\* loop's iteration on line i (i = 0: before the loop).
BlockAfter(norm, i) ==
    IF i = 0 THEN << >>
    ELSE LET prev == BlockAfter(norm, i - 1) IN
         IF norm[i] = "" THEN prev
         ELSE LET b == Append(prev, norm[i]) IN
              IF Len(b) = BLOCK_SIZE THEN Tail(b) ELSE b

CodeDuplicationOutput(s) ==
    Unguarded(s, "check_code_duplication",
              DuplicationFrom(s.norm, 1, << >>, {}))

\* Mutant of HandlerIssues: the logging test is skipped for a handler that
\* already got a bare-except or too-general issue.
HandlerIssuesLoggingElse(h) ==
    LET typed == IF h.type = "bare" THEN << "bare_except" >>
                 ELSE IF h.type = "Exception" THEN << "too_general" >>
                 ELSE << >>
    IN  typed
        \o (IF ~h.expr THEN << "no_action" >> ELSE << >>)
        \o (IF typed = << >> /\ h.log # "level" THEN << "no_logging" >>
            ELSE << >>)

\* The body of the loop over node.handlers in check_error_handling, for one
\* handler: h.type is how the clause names its exception ("bare": not at
\* all, "Exception": the name Exception, "specific": anything else), h.expr
\* whether a statement of the body is an ast.Expr, h.log what logging the
\* body does ("none": no call at all, "level": a statement that calls
\* .debug/.info/.warning/.error/.critical, "other": a logging call the
\* check does not recognise, such as logger.exception(...) or a call in a
\* nested statement).
HandlerIssues(h) ==
    (IF h.type = "bare" THEN << "bare_except" >>
     ELSE IF h.type = "Exception" THEN << "too_general" >>
     ELSE << >>)
    \o (IF ~h.expr THEN << "no_action" >> ELSE << >>)
    \o (IF h.log # "level" THEN << "no_logging" >> ELSE << >>)

RECURSIVE ErrorHandlingFrom(_, _)
\* The issues of check_error_handling for the handlers of the tree from
\* the i-th on, in walk order; the handler at position i is on line i.
ErrorHandlingFrom(handlers, i) ==
    IF i > Len(handlers) THEN << >>
    ELSE LET kinds == HandlerIssues(handlers[i])
         IN  [j \in 1..Len(kinds) |->
                Issue("check_error_handling", kinds[j], "", i, i, 1)]
             \o ErrorHandlingFrom(handlers, i + 1)

ErrorHandlingOutput(s) ==
    Unguarded(s, "check_error_handling", ErrorHandlingFrom(s.handlers, 1))

LoggingLevels == {"debug", "info", "warning", "error", "critical"}

RECURSIVE LogCallIssuesFrom(_, _)
\* The walk of check_logging over the method calls, from the i-th on.
LogCallIssuesFrom(calls, i) ==
    IF i > Len(calls) THEN << >>
    ELSE LET c == calls[i] IN
         (IF c.attr \notin LoggingLevels THEN << >>
          ELSE IF c.arg # "str"
               THEN << Issue("check_logging", "no_message", "", i, i, 1) >>
          ELSE IF c.len < MIN_MESSAGE_LENGTH
               THEN << Issue("check_logging", "message_too_short", "", i, i, 1) >>
          ELSE << >>)
         \o LogCallIssuesFrom(calls, i + 1)

\* has_logging_import: set by an ast.ImportFrom whose module is "logging".
HasLoggingImport(imports) ==
    \E i \in 1..Len(imports) :
        imports[i].node = "ImportFrom" /\ imports[i].module = "logging"

\* The issues of check_logging: those of the walk, then the file-level one.
LoggingIssues(s) ==
    LogCallIssuesFrom(s.logcalls, 1)
    \o (IF HasLoggingImport(s.imports) THEN << >>
        ELSE << Issue("check_logging", "no_logging_import", "", 0,
                      Len(s.logcalls) + 1, 1) >>)

LoggingOutput(s) ==
    Unguarded(s, "check_logging", LoggingIssues(s))

\* One issue for all the outdated packages the file imports: its text is
\* "Outdated dependencies found:" and one more line per package.
DependencyVersionsOutput(s) ==
    LET c == "check_dependency_versions"
        k == IF BodyExc(s, c) # "none" THEN BodyExc(s, c)
             ELSE IF s.pip.status = "missing" THEN "FileNotFoundError"
             ELSE IF s.pip.status = "error" THEN "OSError"
             ELSE "none"
    IN  IF IsInstance(k, "FileNotFoundError")
        THEN Returns(<< Msg(c, "dependency_check_skipped") >>)
        ELSE IF k # "none" THEN Returns(<< Msg(c, "check_error") >>)
        ELSE IF s.pip.n > 0
        THEN Returns(<< Issue(c, "outdated_dependencies", "", 0, 1,
                              1 + s.pip.n) >>)
        ELSE Returns(<< >>)

NamingOutput(s) ==
    LET c == "check_variable_naming_and_builtins"
    IN  SyntaxGuarded(s, c, Finding(s, c))

ModularityOutput(s) ==
    LET c == "check_modularity" IN Guarded(s, c, Finding(s, c))

\* The keys of DEPRECATED_FUNCTIONS.
DEPRECATED_FUNCTIONS ==
    { "eval", "exec", "compile", "globals", "locals", "open", "os.system",
      "subprocess.Popen", "pickle.loads", "hashlib.md5", "hashlib.sha1",
      "random", "input" }

RECURSIVE DeprecatedIssuesFrom(_, _)
\* The walk of check_deprecated_functions from the i-th node on: a call is
\* looked up by node.func.id, and only when its func is an ast.Name; the
\* docstring test is for FunctionDef and ClassDef.
DeprecatedIssuesFrom(nodes, i) ==
    IF i > Len(nodes) THEN << >>
    ELSE LET n == nodes[i] IN
         (IF n.item = "Call" /\ n.func.node = "Name"
          THEN IF n.func.id \in DEPRECATED_FUNCTIONS
               THEN << Issue("check_deprecated_functions",
                             "deprecated_function", n.func.id, i, i, 1) >>
               ELSE << >>
          ELSE IF n.item \in {"FunctionDef", "ClassDef"} /\ n.doc = "deprecated"
               THEN << Issue("check_deprecated_functions",
                             "marked_deprecated", n.item, i, i, 1) >>
          ELSE << >>)
         \o DeprecatedIssuesFrom(nodes, i + 1)

DeprecatedFunctionsOutput(s) ==
    Unguarded(s, "check_deprecated_functions",
              DeprecatedIssuesFrom(s.depnodes, 1))

ComplexityOutput(s) ==
    LET c == "check_complexity" IN
    IF BodyExc(s, c) # "none" \/ s.flake8 = "error" \/ s.file_path = "None"
    THEN Returns(<< Msg(c, "check_error") >>)
    ELSE IF s.flake8 = "empty"
    THEN Returns(<< Msg(c, "no_complex_functions") >>)
    ELSE IF s.flake8 = "c901"
    THEN Returns(<< Issue(c, "c901", "", 0, 1, 1) >>)
    ELSE Returns(<< >>)

\* run_tests appends "Some tests failed." itself, before cov.report().
\* With test_module None loadTestsFromModule gives an empty suite, whose
\* run is successful.
TestCoverageOutput(s) ==
    LET c == "check_test_coverage"
        tests == IF s.test_module = "None" THEN "pass" ELSE s.tests
        failed == IF tests = "fail"
                  THEN << Issue(c, "tests_failed", "", 0, 1, 1) >> ELSE << >>
    IN  IF BodyExc(s, c) # "none" \/ tests = "raise"
        THEN Returns(<< Msg(c, "coverage_check_failed") >>)
        ELSE IF s.cov = "raise"
        THEN Returns(failed \o << Issue(c, "coverage_check_failed", "", 0, 2, 1) >>)
        ELSE IF s.cov = "below"
        THEN Returns(failed \o << Issue(c, "coverage_below", "", 0, 2, 1) >>)
        ELSE Returns(failed \o << Issue(c, "coverage", "", 0, 2, 1) >>)

(***************************************************************************)
(* run_checks: the except clauses, in textual order.  The first clause     *)
(* whose class the exception is an instance of handles it.                 *)
(***************************************************************************)
\* Mutant of ExceptClauses: the closing `except Exception` is missing.
ExceptClausesNoCatchAll ==
    << "IndentationError", "SyntaxError", "AttributeError", "ValueError",
       "TypeError", "ImportError", "FileNotFoundError", "KeyError",
       "IndexError", "ZeroDivisionError", "MemoryError" >>

ExceptClauses ==
    << "IndentationError", "SyntaxError", "AttributeError", "ValueError",
       "TypeError", "ImportError", "FileNotFoundError", "KeyError",
       "IndexError", "ZeroDivisionError", "MemoryError", "Exception" >>

\* The index of the clause that handles exception k, 0 if none does.
GuardClause(k) ==
    LET hits == {i \in 1..Len(ExceptClauses) : IsInstance(k, ExceptClauses[i])}
    IN  IF hits = {} THEN 0
        ELSE CHOOSE i \in hits : \A j \in hits : i <= j

GuardIssue(k) == Msg("run_checks", ExceptClauses[GuardClause(k)])

\* Mutant of AfterGuard: after the clause, the sequence is resumed with the
\* check that follows the one that raised.
AfterGuardResume(c) == NextCheck(c)

\* Where analyze() goes on after a clause of run_checks handled the
\* exception of check c: run_checks returns, the report is rendered.
AfterGuard(c) == "render"

\* Mutant of Extend: new issues are put in front of the list.
ExtendInFront(iss, out) == out \o iss

\* list.append / list.extend on self.issues.
Extend(iss, out) == iss \o out

(***************************************************************************)
(* analyze(): the report string, as its head line and the text lines that  *)
(* follow it (f"{issue}\n" for each issue: an issue of nl text lines gives *)
(* nl lines of the report).                                                *)
(***************************************************************************)
RECURSIVE ReportLines(_)
ReportLines(iss) ==
    IF iss = << >> THEN << >>
    ELSE [k \in 1..Head(iss).nl |-> [text |-> Head(iss), part |-> k]]
         \o ReportLines(Tail(iss))

\* Mutant of Render: the loop over self.issues stops one issue early.
RenderDropLast(iss) ==
    IF iss = << >> THEN [head |-> Sentinel, body |-> << >>]
    ELSE [head |-> Header, body |-> ReportLines(SubSeq(iss, 1, Len(iss) - 1))]

Render(iss) ==
    IF iss = << >> THEN [head |-> Sentinel, body |-> << >>]
    ELSE [head |-> Header, body |-> ReportLines(iss)]

(***************************************************************************)
(* ReverseEngineer._get_completion, in the packaged module                 *)
(* reverseEngineer/reverse_engineer.py and in reverse_engineer_aider.py.   *)
(***************************************************************************)
Variants == {"reverseEngineer/reverse_engineer.py", "reverse_engineer_aider.py"}

Prompts == {"p1", "p2"}
ModelNames == {"m1", "m2"}
Keys == Prompts \X ModelNames
Responses == {"r1", "r2"}

\* len(response.split()): the responses of the model are of one and of two
\* words.
ResponseTokens(r) == IF r = "r1" THEN 1 ELSE 2

\* self.rate_limit_state: the token count, and the time since last_reset,
\* which is kept up to TimeFrame + 1 (all that `> time_frame` can tell).
NewRateLimitState == [tokens |-> 0, age |-> 0]

Elapse(rl, secs) ==
    [rl EXCEPT !.age = IF @ + secs > TimeFrame THEN TimeFrame + 1 ELSE @ + secs]

\* _check_rate_limit: the count is reset when more than time_frame has
\* passed since last_reset; it raises when the count has reached the limit.
CheckRateLimit(rl) ==
    LET now == IF rl.age > TimeFrame THEN [tokens |-> 0, age |-> 0] ELSE rl
    IN  [rl |-> now, raised |-> now.tokens >= Limit]

\* _update_rate_limit(tokens)
UpdateRateLimit(rl, tokens) == [rl EXCEPT !.tokens = @ + tokens]

\* What the model does when it is called in a pass of the retry loop: it
\* answers ("ok"), or the call or what follows it in the try raises.
ApiOutcomes == {"api_error", "ok"}
Attempts == [1..MAX_RETRIES -> ApiOutcomes]

\* An event of a call: a rate-limit check with the count it saw, a call of
\* the model, an update of the count by n, a sleep of n seconds, the return
\* or the raise that ends the call.
Ev(ev, n) == [ev |-> ev, n |-> n]

RECURSIVE RetryFixedWait(_, _, _, _)
\* The retry loop with a wait of one second after every failed pass, the
\* last included.
RetryFixedWait(rl, attempt, as, r) ==
    LET chk == CheckRateLimit(rl)
        pass == << Ev("check", chk.rl.tokens) >>
                \o (IF chk.raised THEN << >> ELSE << Ev("api", 0) >>)
    IN  IF ~chk.raised /\ as[attempt + 1] = "ok"
        THEN [ rl |-> UpdateRateLimit(chk.rl, ResponseTokens(r)),
               resp |-> r,
               trace |-> pass \o << Ev("update", ResponseTokens(r)),
                                    Ev("return", 0) >> ]
        ELSE IF attempt = MAX_RETRIES - 1
        THEN [ rl |-> Elapse(chk.rl, 1), resp |-> "ReverseEngineerError",
               trace |-> pass \o << Ev("sleep", 1), Ev("raise", 0) >> ]
        ELSE LET rest == RetryFixedWait(Elapse(chk.rl, 1), attempt + 1, as, r)
             IN  [rest EXCEPT !.trace = pass \o << Ev("sleep", 1) >> \o @]

RECURSIVE RetryFrom(_, _, _, _)
\* The retry loop from pass `attempt` (0-based, as in the source) on.
RetryFrom(rl, attempt, as, r) ==
    LET chk == CheckRateLimit(rl)
        pass == << Ev("check", chk.rl.tokens) >>
                \o (IF chk.raised THEN << >> ELSE << Ev("api", 0) >>)
    IN  IF ~chk.raised /\ as[attempt + 1] = "ok"
        THEN [ rl |-> UpdateRateLimit(chk.rl, ResponseTokens(r)),
               resp |-> r,
               trace |-> pass \o << Ev("update", ResponseTokens(r)),
                                    Ev("return", 0) >> ]
        ELSE IF attempt = MAX_RETRIES - 1
        THEN [ rl |-> chk.rl, resp |-> "ReverseEngineerError",
               trace |-> pass \o << Ev("raise", 0) >> ]
        ELSE LET rest == RetryFrom(Elapse(chk.rl, 2 ^ attempt), attempt + 1,
                                   as, r)
             IN  [rest EXCEPT !.trace = pass \o << Ev("sleep", 2 ^ attempt) >>
                                        \o @]

CountEv(trace, ev) == Cardinality({i \in 1..Len(trace) : trace[i].ev = ev})

\* The body of _get_completion on the rate-limit state rl: what the call
\* returned or raised, its rate-limit checks and calls of the model, and
\* the events of the call in order.
CompletionBody(rl, key, as, r) ==
    LET run == RetryFrom(rl, 0, as, r)
    IN  [ rl    |-> run.rl,
          entry |-> [ key    |-> key,
                      resp   |-> run.resp,
                      checks |-> CountEv(run.trace, "check"),
                      api    |-> CountEv(run.trace, "api"),
                      trace  |-> run.trace ] ]

EmptyCache == [k \in Keys |-> "none"]

\* __init__: nothing is cached, no call was made, the count is 0.
NewEngine(v) ==
    [variant |-> v, cache |-> EmptyCache, log |-> << >>,
     rl |-> NewRateLimitState]

\* reverseEngineer/reverse_engineer.py: the method carries no decorator,
\* every call runs the body.
GetCompletion(e, key, as, r) ==
    LET call == CompletionBody(e.rl, key, as, r)
    IN  [e EXCEPT !.log = Append(@, call.entry), !.rl = call.rl]

\* reverse_engineer_aider.py: @lru_cache(maxsize=100).  A key that is in the
\* cache returns the stored response and the body is not run; a returned
\* response is stored, a raised exception is not.  The keys of the model
\* are fewer than maxsize, so nothing is evicted.
LruGetCompletion(e, key, as, r) ==
    IF e.cache[key] # "none"
    THEN [e EXCEPT !.log = Append(@, [key |-> key, resp |-> e.cache[key],
                                      checks |-> 0, api |-> 0,
                                      trace |-> << >>])]
    ELSE LET call == CompletionBody(e.rl, key, as, r)
         IN  [e EXCEPT !.log = Append(@, call.entry),
                       !.rl = call.rl,
                       !.cache[key] = IF call.entry.resp \in Responses
                                      THEN call.entry.resp ELSE "none"]

(***************************************************************************)
(* The state machine.                                                      *)
(***************************************************************************)
Fresh ==
    /\ pc = "idle"
    /\ issues = << >>
    /\ executed = << >>
    /\ raised = "none"
    /\ failedAt = "none"
    /\ result = "none"
    /\ reports = << >>
    /\ engine = NewEngine("reverseEngineer/reverse_engineer.py")

\* StaticAnalyzer(file_path, content, test_module)
Init == src \in Inputs /\ Fresh

\* analyze() is entered: run_checks starts with its first check.
\* self.issues is what __init__ or the previous call left.
Enter ==
    /\ pc' = CheckOrder[1]
    /\ executed' = << >>
    /\ raised' = "none"
    /\ failedAt' = "none"
    /\ result' = "none"
    /\ UNCHANGED <<src, issues, reports, engine>>

analyze == pc = "idle" /\ Enter

analyze_again == pc = "done" /\ Len(reports) < MaxCalls /\ Enter

\* One check runs to its end: r is what it does on src.
Step(c, r) ==
    /\ pc = c
    /\ executed' = Append(executed, c)
    /\ issues' = Extend(issues, r.out)
    /\ IF r.exc = "none"
       THEN pc' = NextCheck(c) /\ UNCHANGED <<raised, failedAt>>
       ELSE pc' = "guard" /\ raised' = r.exc /\ failedAt' = c
    /\ UNCHANGED <<src, result, reports, engine>>

check_pyflakes_issues == Step("check_pyflakes_issues", PyflakesOutput(src))
check_indentation == Step("check_indentation", IndentationOutput(src))
check_line_length == Step("check_line_length", LineLengthOutput(src))
check_docstrings == Step("check_docstrings", DocstringsOutput(src))
check_conformity_to_pep8 == Step("check_conformity_to_pep8", Pep8Output(src))
check_functions_length ==
    Step("check_functions_length", FunctionsLengthOutput(src))
check_try_except_usage ==
    Step("check_try_except_usage", TryExceptUsageOutput(src))
check_dead_code == Step("check_dead_code", DeadCodeOutput(src))
check_resource_management ==
    Step("check_resource_management", ResourceManagementOutput(src))
check_concurrency_issues ==
    Step("check_concurrency_issues", ConcurrencyOutput(src))
check_secrets_in_code == Step("check_secrets_in_code", SecretsOutput(src))
check_solid_principles == Step("check_solid_principles", SolidOutput(src))
check_type_annotations ==
    Step("check_type_annotations", TypeAnnotationsOutput(src))
check_design_patterns ==
    Step("check_design_patterns", DesignPatternsOutput(src))
check_code_duplication ==
    Step("check_code_duplication", CodeDuplicationOutput(src))
check_error_handling == Step("check_error_handling", ErrorHandlingOutput(src))
check_logging == Step("check_logging", LoggingOutput(src))
check_dependency_versions ==
    Step("check_dependency_versions", DependencyVersionsOutput(src))
check_variable_naming_and_builtins ==
    Step("check_variable_naming_and_builtins", NamingOutput(src))
check_modularity == Step("check_modularity", ModularityOutput(src))
check_deprecated_functions ==
    Step("check_deprecated_functions", DeprecatedFunctionsOutput(src))
check_complexity == Step("check_complexity", ComplexityOutput(src))
check_test_coverage == Step("check_test_coverage", TestCoverageOutput(src))

\* An exception reached the try of run_checks: the clause that matches it
\* appends its issue; with no matching clause it leaves analyze().
run_checks_except ==
    /\ pc = "guard"
    /\ IF GuardClause(raised) # 0
       THEN /\ issues' = Extend(issues, << GuardIssue(raised) >>)
            /\ pc' = AfterGuard(failedAt)
            /\ result' = result
       ELSE /\ issues' = issues
            /\ pc' = "done"
            /\ result' = "raised"
    /\ UNCHANGED <<src, executed, raised, failedAt, reports, engine>>

\* run_checks returned: analyze() builds the report and returns it.
analyze_return ==
    /\ pc = "render"
    /\ reports' = Append(reports, Render(issues))
    /\ result' = "returned"
    /\ pc' = "done"
    /\ UNCHANGED <<src, issues, executed, raised, failedAt, engine>>

RunChecks ==
    \/ check_pyflakes_issues
    \/ check_indentation
    \/ check_line_length
    \/ check_docstrings
    \/ check_conformity_to_pep8
    \/ check_functions_length
    \/ check_try_except_usage
    \/ check_dead_code
    \/ check_resource_management
    \/ check_concurrency_issues
    \/ check_secrets_in_code
    \/ check_solid_principles
    \/ check_type_annotations
    \/ check_design_patterns
    \/ check_code_duplication
    \/ check_error_handling
    \/ check_logging
    \/ check_dependency_versions
    \/ check_variable_naming_and_builtins
    \/ check_modularity
    \/ check_deprecated_functions
    \/ check_complexity
    \/ check_test_coverage
    \/ run_checks_except

\* One analyze() call on a freshly constructed instance, as every caller
\* in reverse_engineer.py makes it.
Next == analyze \/ RunChecks \/ analyze_return

Spec == Init /\ [][Next]_vars

\* check_code_duplication called on a fresh instance, for every text of up
\* to MaxNormLines lines.
DuplicationInputs ==
    { [ CleanSrc EXCEPT !.norm = n ] : n \in SeqsUpTo(NormLines, MaxNormLines) }

\* The instance right after __init__, about to run check c.
Called(c) ==
    /\ pc = c
    /\ issues = << >>
    /\ executed = << >>
    /\ raised = "none"
    /\ failedAt = "none"
    /\ result = "none"
    /\ reports = << >>
    /\ engine = NewEngine("reverseEngineer/reverse_engineer.py")

InitDuplication == src \in DuplicationInputs /\ Called("check_code_duplication")

SpecDuplication == InitDuplication /\ [][check_code_duplication]_vars

\* check_error_handling called on a fresh instance, for every tree of up
\* to MaxHandlers except clauses.
ErrorHandlingInputs ==
    { [ CleanSrc EXCEPT !.handlers = h ] :
        h \in SeqsUpTo(HandlerRecs, MaxHandlers) }

InitErrorHandling ==
    src \in ErrorHandlingInputs /\ Called("check_error_handling")

SpecErrorHandling == InitErrorHandling /\ [][check_error_handling]_vars

\* check_solid_principles called on a fresh instance, for every tree of up
\* to MaxInner + 1 class definitions.
SolidInputs ==
    { s \in { [ CleanSrc EXCEPT !.cls = c, !.inner = q ] :
               c \in {NoClass} \cup InnerShapes, q \in InnerSeqs } :
        WellNested(s) }

InitSolid == src \in SolidInputs /\ Called("check_solid_principles")

SpecSolid == InitSolid /\ [][check_solid_principles]_vars

\* check_logging called on a fresh instance.
LoggingInputs ==
    { [ CleanSrc EXCEPT !.imports = im, !.logcalls = lc ] :
        im \in SeqsUpTo(ImportRecs, MaxImports),
        lc \in SeqsUpTo(LogCallRecs, MaxLogCalls) }

InitLogging == src \in LoggingInputs /\ Called("check_logging")

SpecLogging == InitLogging /\ [][check_logging]_vars

\* check_deprecated_functions called on a fresh instance.
DeprecatedInputs ==
    { [ CleanSrc EXCEPT !.depnodes = n ] : n \in SeqsUpTo(DepNodes, MaxDepNodes) }

InitDeprecated ==
    src \in DeprecatedInputs /\ Called("check_deprecated_functions")

SpecDeprecated == InitDeprecated /\ [][check_deprecated_functions]_vars

\* check_line_length called on a fresh instance.
LineLengthInputs ==
    { [ CleanSrc EXCEPT !.lines = ls ] :
        ls \in {q \in SeqsUpTo(LengthLines, MaxSpanLines) : WellFormed(q)} }

InitLineLength == src \in LineLengthInputs /\ Called("check_line_length")

SpecLineLength == InitLineLength /\ [][check_line_length]_vars

\* check_resource_management called on a fresh instance, for every tree of
\* up to MaxOpens calls.
ResourceInputs ==
    { [ CleanSrc EXCEPT !.opens = o ] : o \in SeqsUpTo(CallRecs, MaxOpens) }

InitResource ==
    src \in ResourceInputs /\ Called("check_resource_management")

SpecResource == InitResource /\ [][check_resource_management]_vars

\* One call of _get_completion(prompt, model_name) on the instance, with
\* what the rate limiter and the model do during the call.
get_completion ==
    /\ Len(engine.log) < MaxCompletions
    /\ \E key \in Keys, as \in Attempts, r \in Responses :
         engine' = IF engine.variant = "reverse_engineer_aider.py"
                   THEN LruGetCompletion(engine, key, as, r)
                   ELSE GetCompletion(engine, key, as, r)
    /\ UNCHANGED <<src, pc, issues, executed, raised, failedAt, result, reports>>

\* A second passes between two calls.
time_passes ==
    /\ engine.rl.age <= TimeFrame
    /\ Len(engine.log) < MaxCompletions
    /\ engine' = [engine EXCEPT !.rl = Elapse(@, 1)]
    /\ UNCHANGED <<src, pc, issues, executed, raised, failedAt, result, reports>>

\* A ReverseEngineer of either module, just constructed.
InitCompletion ==
    /\ src = CleanSrc
    /\ pc = "idle"
    /\ issues = << >>
    /\ executed = << >>
    /\ raised = "none"
    /\ failedAt = "none"
    /\ result = "none"
    /\ reports = << >>
    /\ engine \in {NewEngine(v) : v \in Variants}

SpecCompletion == InitCompletion /\ [][get_completion \/ time_passes]_vars

\* The same instance is analysed again after a call returned.
ReanalyzeInputs == ParseInputs \cup DefInputs \cup ConcInputs \cup FoundInputs

InitReanalyze == src \in ReanalyzeInputs /\ Fresh

NextReanalyze == analyze \/ analyze_again \/ RunChecks \/ analyze_return

SpecReanalyze == InitReanalyze /\ [][NextReanalyze]_vars

(***************************************************************************)
(* Claims.                                                                 *)
(***************************************************************************)
Returned == result = "returned"
LastReport == reports[Len(reports)]
RangeOf(seq) == {seq[i] : i \in 1..Len(seq)}
IssuesOf(c) == SelectSeq(issues, LAMBDA x : x.chk = c)

RECURSIVE TextLinesBefore(_, _)
\* The number of text lines of the issues before the i-th.
TextLinesBefore(iss, i) ==
    IF i <= 1 THEN 0 ELSE iss[i - 1].nl + TextLinesBefore(iss, i - 1)

IsClean(s) ==
    /\ s.parse = "ok"
    /\ s.fault = NoFault
    /\ \A i \in 1..Len(s.lines) :
         s.lines[i].len <= MAX_LINE_LENGTH /\ s.lines[i].pats = {}
    /\ \A i \in 1..MaxDefLine : s.defs[i].kind = "none" \/ s.defs[i].doc
    /\ \A i \in 1..MaxConcLine : s.conc[i] = "none"
    /\ s.found = {}
    /\ s.pyflakes = ToolOk(0)
    /\ s.pycodestyle = ToolOk(0)
    /\ s.flake8 = "empty"
    /\ s.pip = ToolOk(0)
    /\ s.tests = "pass"
    /\ s.cov = "above"

\* C2 as stated: for a valid input without any violation no check
\* appends an issue and analyze() returns the sentinel.
C2_CleanGivesSentinel ==
    (Returned /\ IsClean(src)) =>
        issues = << >> /\ LastReport.head = Sentinel

\* C3 as stated: the issue list is empty when an analyze() call starts,
\* and a second call on the same instance returns the report of the first.
C3_Idempotent ==
    /\ pc = CheckOrder[1] => issues = << >>
    /\ Len(reports) >= 2 => reports[2] = reports[1]

\* C4: no exception raised by a check leaves analyze(): every call ends
\* by returning a report, and an exception that reached run_checks has
\* been turned into the last issue of the list.
C4_NeverPropagates ==
    /\ result # "raised"
    /\ pc = "done" =>
         /\ Returned
         /\ Len(reports) = 1
         /\ LastReport.head \in {Header, Sentinel}
    /\ (raised # "none" /\ pc \in {"render", "done"}) =>
         /\ issues # << >>
         /\ issues[Len(issues)].chk = "run_checks"

\* An exception with no clause of its own, handled by `except Exception`.
C4_Witness ==
    /\ pc = "done"
    /\ Returned
    /\ raised = "RecursionError"
    /\ issues[Len(issues)] = Msg("run_checks", "Exception")

Count(seq, P(_)) == Cardinality({i \in 1..Len(seq) : P(seq[i])})

\* An issue that reports that the source could not be parsed.
IsParseFailure(x) == x.kind \in {"IndentationError", "SyntaxError", "syntax_error"}

\* C5 as stated: text with bad indentation gives exactly one parse-failure
\* issue and no issue produced by a check that works on the tree.
C5_OneParseIssue ==
    (pc = "done" /\ src.parse = "IndentationError") =>
        /\ Count(issues, IsParseFailure) = 1
        /\ \A i \in 1..Len(issues) :
             issues[i].chk \in ParsingChecks \ {"check_indentation"}
               => IsParseFailure(issues[i])

LineBasedChecks ==
    {"check_line_length", "check_secrets_in_code", "check_code_duplication"}

\* C6 as stated: when the source cannot be parsed, the line length, the
\* secrets and the duplication check are all still executed.
C6_LineChecksStillRun ==
    (pc = "done" /\ src.parse # "ok") => LineBasedChecks \subseteq RangeOf(executed)

IsGuardIssue(x) == x.chk = "run_checks"

\* C7: when an exception reaches the try of run_checks, exactly one issue
\* is appended for it, it is the last of the list, and no check after the
\* one that raised is executed.
C7_CategoryFatal ==
    (raised # "none" /\ pc \in {"render", "done"}) =>
        /\ failedAt \in Checks
        /\ issues # << >>
        /\ IsGuardIssue(issues[Len(issues)])
        /\ Count(issues, IsGuardIssue) = 1
        /\ \A j \in 1..Len(executed) : IndexOf(executed[j]) <= IndexOf(failedAt)
        /\ \A i \in 1..(Len(issues) - 1) :
             IndexOf(issues[i].chk) <= IndexOf(failedAt)

\* A parse failure escaped check_functions_length after earlier checks had
\* appended issues: the run ended there.
C7_Witness ==
    /\ pc = "done"
    /\ raised = "IndentationError"
    /\ failedAt = "check_functions_length"
    /\ Len(issues) > 2

GuardedCategories ==
    { "code_style", "potential_bugs", "security", "design_principles",
      "maintainability", "complexity", "test_coverage" }

\* An exception is raised inside check c on the inputs s.
RaisesInside(s, c) ==
    \/ BodyExc(s, c) # "none"
    \/ c = "check_conformity_to_pep8" /\ s.pycodestyle.status = "missing"

\* C8 as stated: an exception raised inside a check of one category is
\* caught at the boundary of the category, and every later category is
\* still executed.
C8_CategoryLocal ==
    \A c \in Checks :
        (/\ pc = "done"
         /\ c \in RangeOf(executed)
         /\ Category(c) \in GuardedCategories
         /\ RaisesInside(src, c)) =>
            /\ raised = "none"
            /\ \A d \in Checks :
                 CategoryIndex(Category(d)) > CategoryIndex(Category(c))
                   => d \in RangeOf(executed)


IsPrefix(a, b) == Len(a) <= Len(b) /\ SubSeq(b, 1, Len(a)) = a

\* The category an issue was appended in: that of its check, and for the
\* issue of a clause of run_checks that of the check that raised.
CategoryOfIssue(x) ==
    IF IsGuardIssue(x) THEN Category(failedAt) ELSE Category(x.chk)

\* Issues of an earlier category stand before those of a later one.
CategoryOrdered ==
    \A i, j \in 1..Len(issues) :
        i < j => CategoryIndex(CategoryOfIssue(issues[i]))
                   <= CategoryIndex(CategoryOfIssue(issues[j]))

\* The issues in xs stand in the order in which the check detected them.
DetectionOrdered(xs) ==
    \A i, j \in 1..Len(xs) : i < j => xs[i].det <= xs[j].det

IsSharedResource(x) == x.kind = "shared_resource"

\* The checks that append an issue for each thing they find, as they find
\* it, several issues for one source.
AppendAsFound ==
    { "check_pyflakes_issues", "check_line_length", "check_docstrings",
      "check_conformity_to_pep8", "check_secrets_in_code" }

IsFunctionDefinition(d) == d.kind \in {"FunctionDef", "AsyncFunctionDef"}

\* C10 as stated: a function definition without a docstring gives exactly
\* one "is missing a docstring" line of the report, with the function's
\* name and the 1-based line of its definition; a function with a
\* docstring gives none.
C10_MissingDocstring ==
    (/\ Returned
     /\ src.parse = "ok"
     /\ "check_docstrings" \in RangeOf(executed)
     /\ BodyExc(src, "check_docstrings") = "none") =>
        LET IsFor(l, i) ==
                /\ l.text.kind = "function_missing_docstring"
                /\ l.text.name = src.defs[i].name
                /\ l.text.line = i
            LinesFor(i) ==
                {n \in 1..Len(LastReport.body) : IsFor(LastReport.body[n], i)}
        IN  \A i \in 1..MaxDefLine :
                IsFunctionDefinition(src.defs[i]) =>
                  Cardinality(LinesFor(i)) = IF src.defs[i].doc THEN 0 ELSE 1

IsMethodCountIssue(x) ==
    x.kind \in { "srp_too_many_methods", "isp_too_many_methods",
                 "single_responsibility_too_many_methods" }

\* check_solid_principles ran to its end on a source that parses.
SolidRan ==
    /\ pc = "done"
    /\ "check_solid_principles" \in RangeOf(executed)
    /\ BodyExc(src, "check_solid_principles") = "none"

\* C11 as stated: a class with more than 10 methods gets exactly two
\* method-count issues, one of the SRP analyzer and one of the ISP
\* analyzer, and no further one.
C11_TwoMethodCountIssues ==
    (SolidRan /\ src.cls.kind = "ClassDef"
       /\ src.cls.methods > TOO_MANY_METHODS) =>
        /\ Count(issues, IsMethodCountIssue) = 2
        /\ Count(issues, LAMBDA x : x.kind = "srp_too_many_methods") = 1
        /\ Count(issues, LAMBDA x : x.kind = "isp_too_many_methods") = 1

\* check_line_length ran to its end.
LineLengthRan ==
    /\ pc = "done"
    /\ "check_line_length" \in RangeOf(executed)
    /\ BodyExc(src, "check_line_length") = "none"

LineLengthIssuesAt(i) ==
    Count(issues, LAMBDA x : x.chk = "check_line_length" /\ x.line = i)

\* C12 as stated: a line of more than MAX_LINE_LENGTH characters that is
\* outside any docstring and is not a comment gets exactly one line-length
\* issue with its 1-based number; a line inside a docstring span or
\* starting with '#' gets none; a line of MAX_LINE_LENGTH characters or
\* fewer gets none.
C12_LineLength ==
    LineLengthRan =>
        \A i \in 1..Len(src.lines) :
            LET l == src.lines[i] IN
            LineLengthIssuesAt(i) =
                IF l.len > MAX_LINE_LENGTH /\ l.span = "code" /\ l.head # "hash"
                THEN 1 ELSE 0

\* The lines of the text that normalize_line does not make empty.
Kept(norm) == SelectSeq([i \in 1..Len(norm) |-> i], LAMBDA i : norm[i] # "")

\* The k-th block of three consecutive normalized lines, and the first and
\* last source line it occupies.
BlockAt(norm, k) == [j \in 1..BLOCK_SIZE |-> norm[Kept(norm)[k + j - 1]]]
BlockRange(norm, k) == << Kept(norm)[k], Kept(norm)[k + BLOCK_SIZE - 1] >>

\* The pairs of an earlier and a later block that are the same.
Repeats(norm) ==
    {p \in (1..Len(Kept(norm))) \X (1..Len(Kept(norm))) :
       /\ p[1] < p[2]
       /\ p[2] + BLOCK_SIZE - 1 <= Len(Kept(norm))
       /\ BlockAt(norm, p[1]) = BlockAt(norm, p[2])}

DuplicationIssues == IssuesOf("check_code_duplication")

\* C13 as stated: when one block of three consecutive normalized lines
\* appears twice in the file (and no other block does),
\* check_code_duplication reports exactly one
\* duplication issue, and the lines it cites are the source lines the
\* second occurrence occupies, skipped lines included.
C13_SecondOccurrence ==
    (/\ "check_code_duplication" \in RangeOf(executed)
     /\ Cardinality(Repeats(src.norm)) = 1) =>
        LET p == CHOOSE q \in Repeats(src.norm) : TRUE IN
        /\ Len(DuplicationIssues) = 1
        /\ << DuplicationIssues[1].line, DuplicationIssues[1].det >>
             = BlockRange(src.norm, p[2])

\* The number of issues of kind k that check_error_handling appended for
\* the handler on line i.
HandlerIssueCount(k, i) ==
    Count(issues, LAMBDA x : x.chk = "check_error_handling"
                             /\ x.kind = k /\ x.line = i)

\* C14: a bare `except:` whose body holds no logging call gets exactly one
\* "Bare except" issue and exactly one "No logging" issue, whatever else
\* the handler is reported for (no action taken) and whatever the other
\* handlers are; a handler that names its exception gets no "Bare except"
\* issue, and the "No action" issue depends only on whether a statement of
\* the body is an expression statement.
C14_BareExceptNoLogging ==
    "check_error_handling" \in RangeOf(executed) =>
        \A i \in 1..Len(src.handlers) :
            LET h == src.handlers[i] IN
            /\ HandlerIssueCount("bare_except", i)
                 = IF h.type = "bare" THEN 1 ELSE 0
            /\ h.log = "none" => HandlerIssueCount("no_logging", i) = 1
            /\ HandlerIssueCount("no_action", i) = IF h.expr THEN 0 ELSE 1

\* A bare except with an empty body after a handler that logs: the bare
\* one has its three issues.
C14_Witness ==
    /\ "check_error_handling" \in RangeOf(executed)
    /\ Len(src.handlers) = 2
    /\ src.handlers[1] = [type |-> "specific", expr |-> TRUE, log |-> "level",
                        does |-> "nothing"]
    /\ src.handlers[2] = [type |-> "bare", expr |-> FALSE, log |-> "none",
                           does |-> "nothing"]
    /\ HandlerIssueCount("bare_except", 2) = 1
    /\ HandlerIssueCount("no_logging", 2) = 1
    /\ HandlerIssueCount("no_action", 2) = 1
    /\ Len(issues) = 3

\* The issues that say that a check was skipped: the code has one such
\* message, "Dependency version check skipped: pip not accessible."
IsSkipped(x) == x.kind = "dependency_check_skipped"

IsFailure(x) == x.kind \in {"check_error", "coverage_check_failed"}

\* C15 as stated: without a test module the coverage check appends a
\* "skipped" issue and no failure issue; without a file path the
\* complexity and the dependency check each append a "skipped" issue; in
\* both cases the run goes on to its end.
C15_AbsentInputsSkipped ==
    (pc = "done" /\ src.parse = "ok" /\ src.fault = NoFault
       /\ src.pycodestyle.status # "missing") =>
        /\ src.test_module = "None" =>
             /\ Count(IssuesOf("check_test_coverage"), IsSkipped) = 1
             /\ Count(IssuesOf("check_test_coverage"), IsFailure) = 0
        /\ src.file_path = "None" =>
             /\ Count(IssuesOf("check_complexity"), IsSkipped) = 1
             /\ Count(IssuesOf("check_dependency_versions"), IsSkipped) = 1
        /\ RangeOf(executed) = Checks

\* The external tool of check c is missing or fails for the inputs s:
\* subprocess.run raises.
ToolFails(s, c) ==
    CASE c = "check_pyflakes_issues" -> s.pyflakes.status = "error"
      [] c = "check_complexity" -> s.flake8 = "error"
      [] c = "check_dependency_versions" -> s.pip.status \in {"missing", "error"}
      [] OTHER -> FALSE

\* C16 as stated: when pyflakes, flake8 or pip is missing or fails, the
\* check that invoked it appends one issue for the failure and returns
\* normally, and every later check still runs.
C16_ToolUnavailable ==
    (pc = "done" /\ src.parse = "ok" /\ src.fault = NoFault
       /\ src.pycodestyle.status # "missing") =>
        /\ \A c \in Checks : ToolFails(src, c) => Len(IssuesOf(c)) = 1
        /\ RangeOf(executed) = Checks
        /\ raised = "none"

\* The calls i < j of the log that were made with the same prompt and the
\* same model name, the first of which returned a response.
SameKeyCalls ==
    { p \in (1..Len(engine.log)) \X (1..Len(engine.log)) :
        /\ p[1] < p[2]
        /\ engine.log[p[1]].key = engine.log[p[2]].key
        /\ engine.log[p[1]].resp \in Responses }

\* C17 as stated: _get_completion is cached; of two calls with the same
\* prompt and model name, the second returns the response of the first
\* without a new rate-limit check and without a new call of the model.
C17_CompletionCached ==
    \A p \in SameKeyCalls :
        /\ engine.log[p[2]].resp = engine.log[p[1]].resp
        /\ engine.log[p[2]].checks = 0
        /\ engine.log[p[2]].api = 0

\* The issues that check_resource_management appended for the i-th call.
NotClosedIssuesAt(i) ==
    { n \in 1..Len(issues) :
        /\ issues[n].chk = "check_resource_management"
        /\ issues[n].kind = "not_closed"
        /\ issues[n].det = i }

\* C19 as stated: a call that opens a tracked resource as the context
\* expression of a `with` statement never yields an "opened but not properly
\* closed" issue, whether or not the enclosing function calls the closer.
C19_WithNeverFlagged ==
    (pc # "check_resource_management") =>
        \A i \in 1..Len(src.opens) :
            (/\ src.opens[i].ctx
             /\ GetResourceName(src.opens[i].func) \in DOMAIN ResourceTypes)
            => NotClosedIssuesAt(i) = {}

LocallyRecoveredChecks ==
    {"check_code_duplication", "check_secrets_in_code", "check_docstrings"}

\* C18 as stated: an exception raised inside the duplication, the secrets or
\* the docstring check (a SyntaxError or IndentationError of the parse
\* included) does not leave the check, and the check that follows it in the
\* sequence is executed.
C18_LocallyRecovered ==
    \A c \in LocallyRecoveredChecks :
        (/\ pc = "done"
         /\ c \in RangeOf(executed)
         /\ RaisesInside(src, c)) =>
            /\ failedAt # c
            /\ NextCheck(c) \in Checks => NextCheck(c) \in RangeOf(executed)

HasIssueOfKind(k) == \E n \in 1..Len(issues) : issues[n].kind = k

\* C20 as stated: every class with at least one base class, whatever the
\* form of the base, gets the OCP inheritance issue, and the class gets the
\* protected-methods issue exactly when more than half of its methods have
\* a name that starts with an underscore.
C20_OcpCheck ==
    (SolidRan /\ src.cls.kind = "ClassDef") =>
        /\ src.cls.bases # << >> => HasIssueOfKind("ocp_inherits")
        /\ HasIssueOfKind("protected_methods")
             <=> 2 * src.cls.under > src.cls.methods

\* The five analyzers of the engine, as check_solid_principles lists them.
AnalyzerOrder == << "SRP", "OCP", "LSP", "ISP", "DIP" >>

AnalyzerIssues(a, cls) ==
    CASE a = "SRP" -> SrpAnalyze(cls)
      [] a = "OCP" -> OcpAnalyze(cls)
      [] a = "LSP" -> LspAnalyze(cls)
      [] a = "ISP" -> IspAnalyze(cls)
      [] a = "DIP" -> DipAnalyze(cls)

\* The place in AnalyzerOrder of the analyzer that words an issue.
AnalyzerIndexOf(kind) ==
    CASE kind \in {"srp_responsibilities", "srp_too_many_methods"} -> 1
      [] kind \in {"ocp_inherits", "protected_methods"} -> 2
      [] kind = "lsp_inherits" -> 3
      [] kind = "isp_too_many_methods" -> 4
      [] kind = "dip_instantiation" -> 5
      [] OTHER -> 0

\* What analyze_code returned: the issues check_solid_principles extended
\* self.issues with before its own walk.
EngineResult ==
    SubSeq(issues, 1,
           Len(issues) - Len(SolidManualFrom(Walk(TreeClasses(src)), 1)))

DepthOfLine(n) ==
    LET cs == TreeClasses(src)
    IN  cs[CHOOSE i \in 1..Len(cs) : cs[i].node.line = n].depth

SolidCalled ==
    /\ pc # "check_solid_principles"
    /\ executed = << "check_solid_principles" >>
    /\ raised = "none"

\* C21: analyze_code runs the five analyzers, in the order SRP, OCP, LSP,
\* ISP, DIP, on every class definition of the tree, whatever it is nested
\* in; its result holds, for every class and analyzer, all the issues of
\* that analyzer on that class, class by class in the order of the walk
\* (by depth, then by place in the text) and analyzer by analyzer.
C21_AllAnalyzersEveryClass ==
    SolidCalled =>
        LET cs == TreeClasses(src)
            res == EngineResult
        IN  /\ \A k \in 1..Len(cs) : \A a \in 1..Len(AnalyzerOrder) :
                 Cardinality({ i \in 1..Len(res) :
                                 /\ res[i].line = cs[k].node.line
                                 /\ AnalyzerIndexOf(res[i].kind) = a })
                   = Len(AnalyzerIssues(AnalyzerOrder[a], cs[k].node))
            /\ \A i \in 1..Len(res) :
                 /\ AnalyzerIndexOf(res[i].kind) # 0
                 /\ \E k \in 1..Len(cs) : cs[k].node.line = res[i].line
            /\ \A i, j \in 1..Len(res) :
                 i < j =>
                   \/ DepthOfLine(res[i].line) < DepthOfLine(res[j].line)
                   \/ /\ DepthOfLine(res[i].line) = DepthOfLine(res[j].line)
                      /\ res[i].line < res[j].line
                   \/ /\ res[i].line = res[j].line
                      /\ AnalyzerIndexOf(res[i].kind)
                           <= AnalyzerIndexOf(res[j].kind)

\* A class nested in a function stands in the text before a class at the
\* top of the module; both are analysed, the nested one after the other,
\* and the nested one has issues of two analyzers.
C21_Witness ==
    /\ SolidCalled
    /\ Len(src.inner) = 2
    /\ src.inner[1].depth = 2 /\ src.inner[1].within = "FunctionDef"
    /\ src.inner[2].depth = 1
    /\ \E i, j, k \in 1..Len(EngineResult) :
         /\ i < j /\ j < k
         /\ EngineResult[i].line = 3
         /\ EngineResult[j].line = 2 /\ EngineResult[k].line = 2
         /\ EngineResult[j].kind = "ocp_inherits"
         /\ EngineResult[k].kind = "lsp_inherits"

LoggingCalled ==
    /\ pc # "check_logging"
    /\ executed = << "check_logging" >>
    /\ raised = "none"

\* The source imports the logging module, in either form.
ImportsLogging ==
    \E i \in 1..Len(src.imports) : src.imports[i].module = "logging"

\* C22 as stated: check_logging appends the "No logging module imported"
\* issue exactly when the source imports no logging facility: not with
\* `import logging` nor with `from logging import ...`, and exactly once
\* with neither.
C22_NoLoggingImport ==
    LoggingCalled =>
        Count(issues, LAMBDA x : x.kind = "no_logging_import")
          = (IF ImportsLogging THEN 0 ELSE 1)

\* The name a call is written with: a plain name, or module.attribute.
CallName(f) ==
    IF f.node = "Name" THEN f.id
    ELSE IF f.node = "Attribute" /\ f.value.node = "Name"
         THEN f.value.id \o "." \o f.id
    ELSE ""

DeprecatedCalled ==
    /\ pc # "check_deprecated_functions"
    /\ executed = << "check_deprecated_functions" >>
    /\ raised = "none"

\* C23 as stated: every call whose name is a key of the mapping, plain
\* (eval, open) or dotted (os.system, hashlib.md5), is flagged with that
\* key and the line of the call.
C23_EveryDeprecatedCall ==
    DeprecatedCalled =>
        \A i \in 1..Len(src.depnodes) :
            (/\ src.depnodes[i].item = "Call"
             /\ CallName(src.depnodes[i].func) \in DEPRECATED_FUNCTIONS)
            => \E n \in 1..Len(issues) :
                 /\ issues[n].kind = "deprecated_function"
                 /\ issues[n].name = CallName(src.depnodes[i].func)
                 /\ issues[n].line = i

ConcurrencyRan ==
    /\ "check_concurrency_issues" \in RangeOf(executed)
    /\ BodyExc(src, "check_concurrency_issues") = "none"

SharedResourceIssuesAt(i) ==
    { n \in 1..Len(issues) :
        /\ issues[n].chk = "check_concurrency_issues"
        /\ issues[n].kind = "shared_resource"
        /\ issues[n].line = i }

UsesThreadPool == \E j \in 1..MaxConcLine : src.conc[j] = "submit"

\* C24: an assignment whose first target is a subscript or an attribute
\* gets its "Shared resource access detected" issue, once, if and only if
\* the tree holds a .submit or .map call; without such a call no
\* shared-resource issue is reported, whatever assignments and lock calls
\* there are.
C24_SharedOnlyWithThreadPool ==
    ConcurrencyRan =>
        /\ \A i \in 1..MaxConcLine :
             Cardinality(SharedResourceIssuesAt(i))
               = (IF src.conc[i] = "assign" /\ UsesThreadPool THEN 1 ELSE 0)
        /\ ~UsesThreadPool =>
             Count(issues, LAMBDA x : x.kind = "shared_resource") = 0

\* An assignment to a subscript stands before a .submit call: the issue of
\* the assignment is in the list, after that of the call.
C24_Witness ==
    /\ ConcurrencyRan
    /\ src.conc[1] = "assign"
    /\ UsesThreadPool
    /\ SharedResourceIssuesAt(1) # {}

LineLengthCalled ==
    /\ pc # "check_line_length"
    /\ executed = << "check_line_length" >>
    /\ raised = "none"

\* in_docstring after line k, as the claim gives it: the parity of the
\* number of lines 1..k that start with a triple-quote delimiter.
InDocstringAfter(k) ==
    Cardinality({j \in 1..k : src.lines[j].head = "triple"}) % 2 = 1

\* C25: a line is flagged iff in_docstring, taken as the parity of the
\* triple-quote-prefixed lines up to and including it, is off, the line
\* does not start with '#' and is longer than 80; so a delimiter line that
\* opens a span is never flagged, one that closes a span is checked, and
\* after a one-line docstring the lines are skipped up to the next
\* triple-quote-prefixed line.
C25_DocstringParity ==
    LineLengthCalled =>
        /\ \A i \in 1..Len(src.lines) :
             LineLengthIssuesAt(i) =
               (IF /\ ~InDocstringAfter(i)
                   /\ src.lines[i].head # "hash"
                   /\ src.lines[i].len > MAX_LINE_LENGTH
                THEN 1 ELSE 0)
        /\ \A i \in 1..Len(src.lines) :
             (src.lines[i].head = "triple" /\ ~InDocstringAfter(i - 1))
               => LineLengthIssuesAt(i) = 0
        /\ \A i \in 1..Len(src.lines) :
             (/\ src.lines[i].head = "triple" /\ InDocstringAfter(i - 1)
              /\ src.lines[i].len > MAX_LINE_LENGTH)
               => LineLengthIssuesAt(i) = 1
        /\ \A i \in 2..Len(src.lines) :
             (/\ src.lines[i - 1].span = "single" /\ ~InDocstringAfter(i - 2)
              /\ src.lines[i].head # "triple")
               => LineLengthIssuesAt(i) = 0

\* A one-line docstring, then an over-long line of code that is skipped,
\* then an over-long line that starts with a delimiter and is flagged.
C25_Witness ==
    /\ LineLengthCalled
    /\ Len(src.lines) = 3
    /\ src.lines[1].span = "single"
    /\ src.lines[2].span = "code" /\ src.lines[2].head = "text"
    /\ src.lines[2].len > MAX_LINE_LENGTH
    /\ src.lines[3].head = "triple" /\ src.lines[3].len > MAX_LINE_LENGTH
    /\ LineLengthIssuesAt(2) = 0
    /\ LineLengthIssuesAt(3) = 1

\* C26 as stated: every handler gets one issue for each of the four
\* conditions that holds for it (bare catch, catch of Exception, empty
\* body, no logging call), and the empty-body issue only when the body does
\* nothing, not when it re-raises or assigns.
C26_FourConditions ==
    "check_error_handling" \in RangeOf(executed) =>
        \A i \in 1..Len(src.handlers) :
            LET h == src.handlers[i] IN
            /\ HandlerIssueCount("bare_except", i)
                 = IF h.type = "bare" THEN 1 ELSE 0
            /\ HandlerIssueCount("too_general", i)
                 = IF h.type = "Exception" THEN 1 ELSE 0
            /\ HandlerIssueCount("no_action", i)
                 = IF ~h.expr /\ h.does = "nothing" THEN 1 ELSE 0
            /\ h.log = "none" => HandlerIssueCount("no_logging", i) = 1
            /\ h.log = "level" => HandlerIssueCount("no_logging", i) = 0

SecretsRan ==
    /\ "check_secrets_in_code" \in RangeOf(executed)
    /\ BodyExc(src, "check_secrets_in_code") = "none"

SecretIssuesAt(i) ==
    Count(issues, LAMBDA x : x.chk = "check_secrets_in_code"
                             /\ x.kind = "secret" /\ x.line = i)

\* C27: every line gets one "Potential secret found" issue, with its
\* 1-based number, for each of the three patterns that matches in it: k
\* issues for a line that k patterns match (two for an AWS-style key, which
\* the generic pattern matches too), none for a line that none matches.
C27_OneIssuePerMatch ==
    SecretsRan =>
        /\ \A i \in 1..Len(src.lines) :
             SecretIssuesAt(i) = Cardinality(src.lines[i].pats)
        /\ \A n \in 1..Len(issues) :
             issues[n].chk = "check_secrets_in_code"
               => issues[n].line \in 1..Len(src.lines)

\* A line without a secret before a line with an AWS-style key: no issue
\* for the first, two for the second.
C27_Witness ==
    /\ SecretsRan
    /\ Len(src.lines) = 2
    /\ src.lines[1].pats = {}
    /\ src.lines[2].pats = {"aws", "generic"}
    /\ SecretIssuesAt(1) = 0
    /\ SecretIssuesAt(2) = 2

\* The waits of a call, in order.
SleepsOf(tr) == SelectSeq(tr, LAMBDA e : e.ev = "sleep")

\* The retry protocol on the events tr of one call that ended with resp.
RetryProtocol(tr, resp) ==
    LET n == Len(tr)
        attempts == CountEv(tr, "check")
    IN  /\ attempts \in 1..3
        /\ tr[1].ev = "check"
        /\ \A i \in 1..n : tr[i].ev \in {"return", "raise"} <=> i = n
        \* every pass: the check, then the call unless the check raised
        /\ \A i \in 1..(n - 1) :
             tr[i].ev = "check" =>
                IF tr[i].n >= Limit
                THEN tr[i + 1].ev \in {"sleep", "raise"}
                ELSE tr[i + 1].ev = "api"
        /\ \A i \in 1..(n - 1) :
             tr[i].ev = "api" => tr[i + 1].ev \in {"update", "sleep", "raise"}
        \* the first pass that succeeds ends the call with its response
        /\ \A i \in 1..(n - 1) : tr[i].ev = "update" => i + 1 = n
        /\ tr[n].ev = "return" => resp \in Responses /\ tr[n - 1].ev = "update"
        \* a failed pass that is not the third waits 2^attempt seconds
        /\ Len(SleepsOf(tr)) = attempts - 1
        /\ \A k \in 1..Len(SleepsOf(tr)) : SleepsOf(tr)[k].n = 2 ^ (k - 1)
        /\ \A i \in 1..(n - 1) : tr[i].ev = "sleep" => tr[i + 1].ev = "check"
        \* the third failure raises without waiting
        /\ tr[n].ev = "raise" =>
             /\ resp = "ReverseEngineerError"
             /\ attempts = 3
             /\ tr[n - 1].ev # "sleep"

\* C28: every call of _get_completion that runs the retry loop makes at
\* most three attempts, returns the response of the first that succeeds,
\* waits 1 s then 2 s after a failed attempt that is not the third, raises
\* ReverseEngineerError without waiting after the third, and retries a
\* rate-limit rejection like any other failure.
C28_RetryProtocol ==
    \A i \in 1..Len(engine.log) :
        engine.log[i].trace # << >>
          => RetryProtocol(engine.log[i].trace, engine.log[i].resp)

\* A call whose first two attempts are rejected by the rate limit, waits
\* of 1 s and 2 s, and whose third attempt returns.
C28_Witness ==
    \E i \in 1..Len(engine.log) :
        LET tr == engine.log[i].trace IN
        /\ Len(tr) = 8
        /\ tr[1].ev = "check" /\ tr[1].n >= Limit
        /\ tr[2] = Ev("sleep", 1)
        /\ tr[3].ev = "check" /\ tr[3].n >= Limit
        /\ tr[4] = Ev("sleep", 2)
        /\ tr[5].ev = "check" /\ tr[6].ev = "api"
        /\ tr[8].ev = "return"
        /\ engine.log[i].resp \in Responses

\* The events of all the calls made so far, in order.
RECURSIVE EventsFrom(_)
EventsFrom(i) ==
    IF i > Len(engine.log) THEN << >>
    ELSE engine.log[i].trace \o EventsFrom(i + 1)

\* C29 as stated: the model is called only after a rate-limit check that
\* saw a count strictly below the limit; the count changes only by a reset
\* to 0 or by the tokens of a successful response; and the count
\* accumulated in one window never exceeds the configured limit.
C29_RateLimit ==
    LET evs == EventsFrom(1) IN
    /\ \A i \in 1..Len(evs) :
         evs[i].ev = "api" =>
            /\ i > 1
            /\ evs[i - 1].ev = "check"
            /\ evs[i - 1].n < Limit
    /\ \A i \in 1..Len(evs) :
         evs[i].ev = "update" => evs[i + 1].ev = "return"
    /\ engine.rl.tokens <= Limit

\* check_code_duplication was called on its own and has returned.
DuplicationCalled ==
    /\ pc # "check_code_duplication"
    /\ executed = << "check_code_duplication" >>
    /\ raised = "none"

\* The number of windows of three consecutive non-empty normalized lines
\* the text forms, the set of the distinct ones, and the windows that
\* repeat an earlier one, in the order of the text.
WindowCount(norm) ==
    IF Len(Kept(norm)) >= BLOCK_SIZE THEN Len(Kept(norm)) - BLOCK_SIZE + 1
    ELSE 0
DistinctWindows(norm) == {BlockAt(norm, k) : k \in 1..WindowCount(norm)}
FormedEarlier(norm, k) ==
    \E j \in 1..(k - 1) : BlockAt(norm, j) = BlockAt(norm, k)
RepeatedWindows(norm) ==
    SelectSeq([k \in 1..WindowCount(norm) |-> k],
              LAMBDA k : FormedEarlier(norm, k))

\* The non-empty normalized lines among the lines 1..i, in order.
KeptUpTo(norm, i) == SelectSeq(SubSeq(norm, 1, i), LAMBDA l : l # "")

\* C30: in check_code_duplication blank and comment-only lines never enter
\* the window; after each processed line the window buffer holds at most
\* two normalized lines (the last ones kept); a duplication issue is
\* emitted for a window exactly when an identical window of three
\* consecutive non-empty normalized lines was formed earlier in the pass,
\* so a window that occurs k times yields k - 1 issues and the number of
\* issues is the number of windows formed minus the number of distinct
\* windows.
C30_SlidingWindow ==
    DuplicationCalled =>
        LET norm == src.norm
            dup  == RepeatedWindows(norm)
        IN
        /\ \A i \in 0..Len(norm) :
             LET b == BlockAfter(norm, i)
                 k == KeptUpTo(norm, i)
             IN /\ Len(b) <= BLOCK_SIZE - 1
                /\ \A j \in 1..Len(b) : b[j] # ""
                /\ b = SubSeq(k, Len(k) - Len(b) + 1, Len(k))
                /\ Len(b) = IF Len(k) < BLOCK_SIZE - 1 THEN Len(k)
                            ELSE BLOCK_SIZE - 1
        /\ issues = DuplicationIssues
        /\ Len(issues) = Len(dup)
        /\ \A m \in 1..Len(dup) :
             issues[m].det = Kept(norm)[dup[m] + BLOCK_SIZE - 1]
        /\ \A w \in DistinctWindows(norm) :
             Cardinality({m \in 1..Len(dup) : BlockAt(norm, dup[m]) = w})
               = Cardinality({k \in 1..WindowCount(norm) :
                                 BlockAt(norm, k) = w}) - 1
        /\ Len(issues) = WindowCount(norm)
                           - Cardinality(DistinctWindows(norm))

\* One window occurs three times, with a skipped line in the text, and
\* two issues were emitted.
C30_Witness ==
    /\ DuplicationCalled
    /\ WindowCount(src.norm) = 3
    /\ Cardinality(DistinctWindows(src.norm)) = 1
    /\ \E i \in 1..Len(src.norm) : src.norm[i] = ""
    /\ Len(issues) = 2

====
